---- MODULE Spec2Model ----
(***************************************************************************)
(* State-machine model of the CredTech XScore platform.                    *)
(*                                                                         *)
(*   SpecAuth      dashboard account store   (src/utils/streamlit_auth.py) *)
(*   SpecRegistry  model registry and A/B routing (src/model/registry.py)  *)
(*   SpecManager   serving-side model manager (src/serve/model_manager.py) *)
(*   SpecPredict   its predict operations      (src/serve/model_manager.py) *)
(*   SpecRateLimit rate limiters (src/utils/middleware.py, src/serve/app.py)*)
(*   SpecApi       scoring endpoints                    (src/serve/api.py) *)
(*   SpecToken     bearer tokens    (src/utils/security.py, src/serve/api.py)*)
(*   SpecSession   session validation (src/serve/app.py, src/utils/security.py)*)
(*   SpecClients   concurrent registry clients     (src/model/registry.py) *)
(*   SpecMonitor   metrics monitor and collector (src/utils/monitoring.py) *)
(*   SpecSecure    encrypted users.json        (src/utils/secure_data.py)  *)
(*   SpecIngest    structured ingestion        (src/ingest/structured.py)  *)
(*   SpecExtApi    external API client          (src/utils/api_client.py)  *)
(*   SpecCache     LRUCache and cache_result    (src/utils/performance.py) *)
(*   SpecDashboard router and prediction history     (src/serve/app.py)    *)
(*   SpecTrain     training pipeline                 (src/model/main.py)   *)
(*   SpecLockout   login lockout                  (src/utils/security.py)  *)
(*                                                                         *)
(* Each specification moves only the variables of its own component; the   *)
(* variables of the other components keep their initial values.            *)
(***************************************************************************)
EXTENDS Integers, Sequences, FiniteSets, TLC

VARIABLES
    users,                  \* users.json: username -> account record
    authRet,                \* outcome of the last account operation
    models,                 \* registry["models"]: model id -> status
    production,             \* registry["production"]
    experiments,            \* registry["experiments"], in insertion order
    default_traffic_split,  \* registry["default_traffic_split"], in insertion order
    strhash,                \* this process's salted str hash (hash(request_id))
    regRet,                 \* outcome of the last registry operation
    model_cache,            \* ModelManager.model_cache: model id -> loaded object
    last_refresh,           \* ModelManager.last_refresh
    now,                    \* time.time()
    mgrRet,                 \* outcome of the last model-manager operation
    request_counts,         \* RateLimitMiddleware.request_counts: ip -> {timestamp: count}
    rate_limits,            \* st.session_state['rate_limits']: user id -> [timestamp]
    rlLog,                  \* history: key -> times of the calls let through, time of the last refusal
    rlRet,                  \* outcome of the last rate-limited call
    apiRet,                 \* the last /api/score or /api/batch-score exchange
    tokens,                 \* the bearer tokens issued so far
    tokRet,                 \* outcome of the last token operation
    session,                \* st.session_state / session_data of one dashboard session
    sessRet,                \* outcome of the last session validation
    registry_file,          \* registry.json as the registry clients share it
    client_registry,        \* per client: its ModelRegistry object (self.registry)
    clLog,                  \* history: ids returned by register_model, last writer
    clRet,                  \* outcome of the last operation of a registry client
    running,                \* MetricsMonitor.running
    monitor_thread,         \* MetricsMonitor.monitor_thread
    thread_pc,              \* per monitor thread: where it is in monitor_loop
    main_pc,                \* where the thread that serves requests is
    collector,              \* MetricsCollector: request_counts, response_times, error_counts
    mcLog,                  \* history: events recorded, events reported by snapshots
    env_key,                \* os.environ["CREDTECH_ENCRYPTION_KEY"]
    users_file,             \* data/users.json as secure_save_json wrote it
    secLog,                 \* history: the users last handed to save_users
    secRet,                 \* outcome of the last save_users / get_users
    ingest,                 \* the last DataIngestionManager.ingest_all run
    extapi,                 \* a BaseAPIClient: its rate-limit counters and what it sent
    memo,                   \* the cache behind cache_result and the calls made through it
    lru,                    \* an LRUCache and the threads using it
    page_state,             \* st.session_state seen by router()
    history,                \* st.session_state['prediction_history']
    trainRet,               \* the last run_model_training
    lockout                 \* SecurityManager.failed_attempts and the last check

authVars == <<users, authRet>>
regVars  == <<models, production, experiments, default_traffic_split, strhash, regRet>>
mgrVars  == <<model_cache, last_refresh, now, mgrRet>>
rlVars   == <<request_counts, rate_limits, rlLog, rlRet>>
\* the components other than the account store, the registry and the manager
apiVars  == <<apiRet>>
tokVars  == <<tokens, tokRet>>
sessVars == <<session, sessRet>>
clVars   == <<registry_file, client_registry, clLog, clRet>>
monVars  == <<running, monitor_thread, thread_pc, main_pc, collector, mcLog>>
secVars  == <<env_key, users_file, secLog, secRet>>
\* the ingestion manager, the external API client, the caches, the router,
\* the prediction history, the training run and the login lockout
lateVars == <<ingest, extapi, memo, lru, page_state, history, trainRet, lockout>>
midVars  == <<rlVars, apiVars, tokVars, sessVars, clVars, monVars, secVars>>
sideVars == <<midVars, lateVars>>
vars     == <<users, authRet, models, production, experiments,
              default_traffic_split, strhash, regRet,
              model_cache, last_refresh, now, mgrRet, sideVars>>
coreVars == <<authVars, regVars, mgrVars>>

\* Python's None
None == "None"

Abs(x) == IF x < 0 THEN -x ELSE x

(***************************************************************************)
(* Account store: create_user / update_user / delete_user                  *)
(***************************************************************************)
Usernames == {"admin", "alice", "bob"}
Roles     == {"user", "admin"}
FullNames == {"Administrator", "Renamed"}
Emails    == {"admin@credtech.com", "other@credtech.com"}

\* the database ensure_user_db_exists writes on first use
DefaultUsers ==
    [u \in {"admin"} |-> [role |-> "admin", full_name |-> "Administrator",
                          email |-> "admin@credtech.com"]]

\* sum(1 for user in users.values() if user["role"] == "admin")
admin_count(us) == Cardinality({u \in DOMAIN us : us[u].role = "admin"})

create_user(username, full_name, email, role) ==
    /\ IF username \in DOMAIN users
       THEN /\ users' = users
            /\ authRet' = [op |-> "create_user", user |-> username, role |-> role, ok |-> FALSE]
       ELSE /\ users' = [u \in DOMAIN users \cup {username} |->
                           IF u = username
                           THEN [role |-> role, full_name |-> full_name, email |-> email]
                           ELSE users[u]]
            /\ authRet' = [op |-> "create_user", user |-> username, role |-> role, ok |-> TRUE]
    /\ UNCHANGED <<regVars, mgrVars, sideVars>>

\* full_name, email, role: a value, or None to keep the stored one
update_user(username, full_name, email, role) ==
    /\ IF username \notin DOMAIN users
       THEN /\ users' = users
            /\ authRet' = [op |-> "update_user", user |-> username, role |-> role, ok |-> FALSE]
       ELSE /\ users' = [users EXCEPT ![username] =
                           [role      |-> IF role # None THEN role ELSE @.role,
                            full_name |-> IF full_name # None THEN full_name ELSE @.full_name,
                            email     |-> IF email # None THEN email ELSE @.email]]
            /\ authRet' = [op |-> "update_user", user |-> username, role |-> role, ok |-> TRUE]
    /\ UNCHANGED <<regVars, mgrVars, sideVars>>

delete_user(username) ==
    /\ IF username \notin DOMAIN users
       THEN /\ users' = users
            /\ authRet' = [op |-> "delete_user", user |-> username, role |-> None, ok |-> FALSE]
       ELSE IF users[username].role = "admin" /\ admin_count(users) <= 1
       THEN /\ users' = users
            /\ authRet' = [op |-> "delete_user", user |-> username, role |-> None, ok |-> FALSE]
       ELSE /\ users' = [u \in DOMAIN users \ {username} |-> users[u]]
            /\ authRet' = [op |-> "delete_user", user |-> username, role |-> None, ok |-> TRUE]
    /\ UNCHANGED <<regVars, mgrVars, sideVars>>

(***************************************************************************)
(* Model registry                                                          *)
(*                                                                         *)
(* Traffic percentages are floats in the source.  They are modelled as     *)
(* integers counting millionths of a percent, so that sums are exact and   *)
(* the tolerance of the sum check is representable.                        *)
(***************************************************************************)
Pct(x) == x * 1000000

\* ids uuid4 can hand to register_model, and an id that was never registered
ModelPool  == {"m1", "m2"}
UnknownId  == "mX"
ModelIds   == ModelPool \cup {UnknownId}

MaxExperiments == 2

RequestIds == {"r1"}
\* values hash(request_id) may take in one process (salted per process)
HashVals   == {-35, 10, 230}
\* values np.random.randint(0, 100) is sampled at: the ends of its range and
\* both sides of every split point of VariantInputs
RandomBuckets == {0, 59, 60, 69, 70, 99}

\* model_variants arguments (a dict: distinct keys, insertion ordered)
VariantInputs ==
    { <<[id |-> "m1", pct |-> Pct(60)], [id |-> "m2", pct |-> Pct(40)]>>,
      <<[id |-> "m2", pct |-> Pct(70)], [id |-> "m1", pct |-> Pct(30) + 500]>>,
      <<[id |-> "m1", pct |-> Pct(60)], [id |-> "m2", pct |-> Pct(30)]>>,
      <<[id |-> "m1", pct |-> Pct(60)], [id |-> "m2", pct |-> Pct(40) + 2000]>>,
      <<[id |-> "m1", pct |-> Pct(60)], [id |-> UnknownId, pct |-> Pct(40)]>>,
      << >> }

RECURSIVE SumPct(_)
\* sum(model_variants.values())
SumPct(v) == IF v = << >> THEN 0 ELSE v[1].pct + SumPct(Tail(v))

VariantIds(v) == {v[i].id : i \in 1..Len(v)}

\* np.isclose(a, b) with its defaults rtol = 1e-05, atol = 1e-08:
\*     |a - b| <= atol + rtol * |b|
\* In millionths: atol = 1/100, rtol * |b| = |b| / 100000, that is
\*     100 * |a - b| <= 1 + |b| / 1000
iscloseExact(a, b) == a = b

isclose(a, b) == Abs(a - b) <= (1 + Abs(b) \div 1000) \div 100

get_production_model_id == production

\* truthiness of the request_id argument ("if request_id:")
Truthy(request_id) == request_id # None /\ request_id # ""

\* ids uuid4 hands to create_experiment, by position in the experiments dict
ExperimentNames == <<"e1", "e2", "e3", "e4">>
ExperimentIndex(e) == {i \in 1..Len(experiments) : experiments[i].id = e}

\* ModelRegistry.__init__ on a fresh directory; strhash is the salt Python
\* draws for str hashes when the process starts
RegistryInit ==
    /\ models = << >>
    /\ production = None
    /\ experiments = << >>
    /\ default_traffic_split = << >>
    /\ strhash \in [RequestIds -> HashVals]
    /\ regRet = [op |-> "init", arg |-> None, out |-> None, bucket |-> -1]

register_model_replacing(model_id, path_ok) ==
    /\ model_id \in ModelPool \ DOMAIN models
    /\ IF path_ok
       THEN /\ models' = [m \in {model_id} |-> "registered"]
            /\ regRet' = [op |-> "register_model", arg |-> model_id,
                          out |-> model_id, bucket |-> -1]
       ELSE /\ models' = models
            /\ regRet' = [op |-> "register_model", arg |-> model_id,
                          out |-> "raise", bucket |-> -1]
    /\ UNCHANGED <<production, experiments, default_traffic_split, strhash>>
    /\ UNCHANGED <<authVars, mgrVars, sideVars>>

\* path_ok: whether shutil.copy finds the artifact at model_path
register_model(model_id, path_ok) ==
    /\ model_id \in ModelPool \ DOMAIN models
    /\ IF path_ok
       THEN /\ models' = [m \in DOMAIN models \cup {model_id} |->
                            IF m = model_id THEN "registered" ELSE models[m]]
            /\ regRet' = [op |-> "register_model", arg |-> model_id,
                          out |-> model_id, bucket |-> -1]
       ELSE /\ models' = models
            /\ regRet' = [op |-> "register_model", arg |-> model_id,
                          out |-> "raise", bucket |-> -1]
    /\ UNCHANGED <<production, experiments, default_traffic_split, strhash>>
    /\ UNCHANGED <<authVars, mgrVars, sideVars>>

promote_resetting_previous(model_id) ==
    /\ IF model_id \notin DOMAIN models
       THEN /\ UNCHANGED <<models, production>>
            /\ regRet' = [op |-> "promote_to_production", arg |-> model_id,
                          out |-> FALSE, bucket |-> -1]
       ELSE /\ models' = [m \in DOMAIN models |->
                            IF m = model_id THEN "production" ELSE "registered"]
            /\ production' = model_id
            /\ regRet' = [op |-> "promote_to_production", arg |-> model_id,
                          out |-> TRUE, bucket |-> -1]
    /\ UNCHANGED <<experiments, default_traffic_split, strhash>>
    /\ UNCHANGED <<authVars, mgrVars, sideVars>>

promote_to_production(model_id) ==
    /\ IF model_id \notin DOMAIN models
       THEN /\ UNCHANGED <<models, production>>
            /\ regRet' = [op |-> "promote_to_production", arg |-> model_id,
                          out |-> FALSE, bucket |-> -1]
       ELSE /\ models' = [models EXCEPT ![model_id] = "production"]
            /\ production' = model_id
            /\ regRet' = [op |-> "promote_to_production", arg |-> model_id,
                          out |-> TRUE, bucket |-> -1]
    /\ UNCHANGED <<experiments, default_traffic_split, strhash>>
    /\ UNCHANGED <<authVars, mgrVars, sideVars>>

create_experiment_keeping_split(model_variants) ==
    /\ IF \/ ~isclose(SumPct(model_variants), Pct(100))
          \/ \E m \in VariantIds(model_variants) : m \notin DOMAIN models
       THEN /\ UNCHANGED <<experiments, default_traffic_split>>
            /\ regRet' = [op |-> "create_experiment", arg |-> model_variants,
                          out |-> "", bucket |-> -1]
       ELSE /\ Len(experiments) < MaxExperiments
            /\ experiments' = Append(experiments,
                                 [id |-> ExperimentNames[Len(experiments) + 1],
                                  model_variants |-> model_variants,
                                  status |-> "active"])
            /\ regRet' = [op |-> "create_experiment", arg |-> model_variants,
                          out |-> ExperimentNames[Len(experiments) + 1], bucket |-> -1]
            /\ default_traffic_split' = IF default_traffic_split = << >>
                                        THEN model_variants
                                        ELSE default_traffic_split
    /\ UNCHANGED <<models, production, strhash>>
    /\ UNCHANGED <<authVars, mgrVars, sideVars>>

create_experiment(model_variants) ==
    /\ IF \/ ~isclose(SumPct(model_variants), Pct(100))
          \/ \E m \in VariantIds(model_variants) : m \notin DOMAIN models
       THEN /\ UNCHANGED <<experiments, default_traffic_split>>
            /\ regRet' = [op |-> "create_experiment", arg |-> model_variants,
                          out |-> "", bucket |-> -1]
       ELSE /\ Len(experiments) < MaxExperiments
            /\ LET experiment_id == ExperimentNames[Len(experiments) + 1] IN
               /\ experiments' = Append(experiments,
                                    [id |-> experiment_id,
                                     model_variants |-> model_variants,
                                     status |-> "active"])
               /\ regRet' = [op |-> "create_experiment", arg |-> model_variants,
                             out |-> experiment_id, bucket |-> -1]
            /\ default_traffic_split' = model_variants
    /\ UNCHANGED <<models, production, strhash>>
    /\ UNCHANGED <<authVars, mgrVars, sideVars>>

RECURSIVE WalkInclusive(_, _, _)
WalkInclusive(traffic_split, cumulative, hash_value) ==
    IF traffic_split = << >>
    THEN production
    ELSE IF Pct(hash_value) <= cumulative + traffic_split[1].pct
         THEN traffic_split[1].id
         ELSE WalkInclusive(Tail(traffic_split), cumulative + traffic_split[1].pct,
                            hash_value)

RECURSIVE Walk(_, _, _)
\* the loop over traffic_split.items(); cumulative starts at 0
Walk(traffic_split, cumulative, hash_value) ==
    IF traffic_split = << >>
    THEN get_production_model_id
    ELSE IF Pct(hash_value) < cumulative + traffic_split[1].pct
         THEN traffic_split[1].id
         ELSE Walk(Tail(traffic_split), cumulative + traffic_split[1].pct, hash_value)

\* hash(request_id) % 100; Python's % takes the sign of the divisor
Bucket(request_id) == strhash[request_id] % 100

\* the id get_model_for_request returns once hash_value is known
RouteWith(hash_value) == Walk(default_traffic_split, 0, hash_value)

get_model_for_request_active_only(request_id) ==
    /\ IF \/ default_traffic_split = << >>
          \/ experiments[Len(experiments)].status # "active"
       THEN regRet' = [op |-> "get_model_for_request", arg |-> request_id,
                       out |-> production, bucket |-> -1]
       ELSE \E hash_value \in RandomBuckets \cup {strhash[r] % 100 : r \in RequestIds} :
              /\ Truthy(request_id) => hash_value = strhash[request_id] % 100
              /\ regRet' = [op |-> "get_model_for_request", arg |-> request_id,
                            out |-> Walk(default_traffic_split, 0, hash_value),
                            bucket |-> hash_value]
    /\ UNCHANGED <<models, production, experiments, default_traffic_split, strhash>>
    /\ UNCHANGED <<authVars, mgrVars, sideVars>>

get_model_for_request(request_id) ==
    /\ IF default_traffic_split = << >>
       THEN regRet' = [op |-> "get_model_for_request", arg |-> request_id,
                       out |-> get_production_model_id, bucket |-> -1]
       ELSE \E hash_value \in RandomBuckets \cup {Bucket(r) : r \in RequestIds} :
              /\ Truthy(request_id) => hash_value = Bucket(request_id)
              /\ regRet' = [op |-> "get_model_for_request", arg |-> request_id,
                            out |-> RouteWith(hash_value), bucket |-> hash_value]
    /\ UNCHANGED <<models, production, experiments, default_traffic_split, strhash>>
    /\ UNCHANGED <<authVars, mgrVars, sideVars>>

\* stop_experiment is called by the CLI and the registry tests; ModelRegistry
\* does not define it, so it follows the specification's description
stop_experiment(experiment_id) ==
    /\ IF ExperimentIndex(experiment_id) = {}
       THEN /\ experiments' = experiments
            /\ regRet' = [op |-> "stop_experiment", arg |-> experiment_id,
                          out |-> FALSE, bucket |-> -1]
       ELSE /\ experiments' = [i \in 1..Len(experiments) |->
                                 IF experiments[i].id = experiment_id
                                 THEN [experiments[i] EXCEPT !.status = "stopped"]
                                 ELSE experiments[i]]
            /\ regRet' = [op |-> "stop_experiment", arg |-> experiment_id,
                          out |-> TRUE, bucket |-> -1]
    /\ UNCHANGED <<models, production, default_traffic_split, strhash>>
    /\ UNCHANGED <<authVars, mgrVars, sideVars>>

\* A server process starts on an existing registry directory: __init__ reads
\* registry.json back (every mutation saved it), the model manager singleton
\* starts with an empty cache, and str hashes get this process's salt.
\* regRet, what callers saw from the previous process, is not touched.
ProcessStart ==
    /\ strhash' \in [RequestIds -> HashVals]
    /\ model_cache' = << >>
    /\ last_refresh' = 0
    /\ UNCHANGED <<models, production, experiments, default_traffic_split, regRet>>
    /\ UNCHANGED <<authVars, now, mgrRet, sideVars>>

PromoteToProduction == \E m \in ModelIds : promote_to_production(m)

(***************************************************************************)
(* Model manager                                                           *)
(*                                                                         *)
(* A loaded model object is a record of the id it was loaded for and the   *)
(* time of the load; NoModel is the None that load_model returns.          *)
(***************************************************************************)
cache_ttl == 300

\* time.time() when the process starts: the epoch clock, far above cache_ttl
StartTime == 2 * cache_ttl

\* the clock is observed every TickStep seconds, for MaxElapsed seconds
TickStep   == cache_ttl \div 2
MaxElapsed == 300

NoModel == [id |-> None, loaded_at |-> -1]

ManagerInit ==
    /\ model_cache = << >>
    /\ last_refresh = 0
    /\ now = StartTime
    /\ mgrRet = [op |-> "init"]

\* file_ok: whether joblib.load reads the artifact without raising
load_model(model_id, file_ok) ==
    LET id == IF model_id = None THEN get_production_model_id ELSE model_id IN
    IF id = None THEN NoModel
    ELSE IF id \notin DOMAIN models THEN NoModel
    ELSE IF file_ok THEN [id |-> id, loaded_at |-> now]
    ELSE NoModel

\* registry.get_model_for_request as called by get_model
Route(hash_value) ==
    IF default_traffic_split = << >> THEN get_production_model_id
    ELSE RouteWith(hash_value)

get_model_keeping_id(model_id, hash_value, ok1, ok2) ==
    LET target   == IF model_id = None THEN Route(hash_value) ELSE model_id
        hit      == target \in DOMAIN model_cache /\ now - last_refresh < cache_ttl
        first    == load_model(target, ok1)
        prod_id  == get_production_model_id
        fallback == first = NoModel /\ prod_id # None /\ prod_id # target
        model    == IF fallback THEN load_model(prod_id, ok2) ELSE first
        mid      == target
    IN  IF hit
        THEN [model |-> model_cache[target], model_id |-> target, target |-> target,
              hit |-> TRUE, loads |-> << >>,
              cache |-> model_cache, refresh |-> last_refresh]
        ELSE [model |-> model, model_id |-> mid, target |-> target,
              hit |-> FALSE,
              loads |-> IF fallback
                        THEN <<[id |-> target, ok |-> FALSE],
                               [id |-> prod_id, ok |-> model # NoModel]>>
                        ELSE <<[id |-> target, ok |-> model # NoModel]>>,
              cache |-> IF model # NoModel
                        THEN [m \in DOMAIN model_cache \cup {mid} |->
                                IF m = mid THEN model ELSE model_cache[m]]
                        ELSE model_cache,
              refresh |-> IF model # NoModel THEN now ELSE last_refresh]

\* get_model(model_id, request_id): what it returns and the cache it leaves.
\* hash_value is the bucket of request_id; ok1 and ok2 are the outcomes of
\* joblib.load in the first and in the fallback load.
get_model(model_id, hash_value, ok1, ok2) ==
    LET target   == IF model_id = None THEN Route(hash_value) ELSE model_id
        hit      == target \in DOMAIN model_cache /\ now - last_refresh < cache_ttl
        first    == load_model(target, ok1)
        prod_id  == get_production_model_id
        fallback == first = NoModel /\ prod_id # None /\ prod_id # target
        model    == IF fallback THEN load_model(prod_id, ok2) ELSE first
        mid      == IF fallback THEN prod_id ELSE target
    IN  IF hit
        THEN [model |-> model_cache[target], model_id |-> target, target |-> target,
              hit |-> TRUE, loads |-> << >>,
              cache |-> model_cache, refresh |-> last_refresh]
        ELSE [model |-> model, model_id |-> mid, target |-> target,
              hit |-> FALSE,
              loads |-> IF fallback
                        THEN <<[id |-> target, ok |-> FALSE],
                               [id |-> prod_id, ok |-> model # NoModel]>>
                        ELSE <<[id |-> target, ok |-> model # NoModel]>>,
              cache |-> IF model # NoModel
                        THEN [m \in DOMAIN model_cache \cup {mid} |->
                                IF m = mid THEN model ELSE model_cache[m]]
                        ELSE model_cache,
              refresh |-> IF model # NoModel THEN now ELSE last_refresh]

\* buckets a request id can fall in: its hash when given, any when drawn
\* at random (get_model) or hashed from a fresh uuid4 (predict)
BucketsOf(request_id) ==
    IF Truthy(request_id) THEN {Bucket(request_id)} ELSE RandomBuckets

\* the calls get_model is given: an explicit model id (the request id is then
\* not read), or no model id and a request id or None
ModelCalls ==
    {[model_id |-> m, request_id |-> None] : m \in ModelIds}
      \cup {[model_id |-> None, request_id |-> r] : r \in RequestIds \cup {None}}

GetModel ==
    \E c \in ModelCalls, ok1, ok2 \in BOOLEAN :
      \E hash_value \in BucketsOf(c.request_id) :
        LET r == get_model(c.model_id, hash_value, ok1, ok2) IN
        /\ model_cache' = r.cache
        /\ last_refresh' = r.refresh
        /\ mgrRet' = [op |-> "get_model", target |-> r.target, hit |-> r.hit,
                      loads |-> r.loads, found |-> r.model # NoModel,
                      model_of |-> r.model.id, model_id |-> r.model_id,
                      age |-> IF r.model = NoModel THEN 0 ELSE now - r.model.loaded_at]
        /\ UNCHANGED <<now, authVars, regVars, sideVars>>

\* predict_ok: model.predict and the bookkeeping in the try block do not raise
predict(model_id, request_id, ok1, ok2, predict_ok) ==
    \E hash_value \in BucketsOf(request_id) :
      LET r == get_model(model_id, hash_value, ok1, ok2) IN
      /\ model_cache' = r.cache
      /\ last_refresh' = r.refresh
      /\ mgrRet' = IF r.model = NoModel
                   THEN [op |-> "predict", resolved |-> FALSE, step_ok |-> FALSE,
                         out |-> "empty", model_id |-> ""]
                   ELSE IF predict_ok
                   THEN [op |-> "predict", resolved |-> TRUE, step_ok |-> TRUE,
                         out |-> "predictions", model_id |-> r.model_id]
                   ELSE [op |-> "predict", resolved |-> TRUE, step_ok |-> FALSE,
                         out |-> "empty", model_id |-> r.model_id]
      /\ UNCHANGED <<now, authVars, regVars, sideVars>>

predict_with_explanation_blank_id(model_id, request_id, ok1, ok2, predict_ok, explain_ok) ==
    \E hash_value \in BucketsOf(request_id) :
      LET r == get_model(model_id, hash_value, ok1, ok2) IN
      /\ model_cache' = r.cache
      /\ last_refresh' = r.refresh
      /\ mgrRet' = IF r.model = NoModel
                   THEN [op |-> "predict_with_explanation", resolved |-> FALSE,
                         step_ok |-> FALSE, out |-> "empty", model_id |-> ""]
                   ELSE IF predict_ok /\ explain_ok
                   THEN [op |-> "predict_with_explanation", resolved |-> TRUE,
                         step_ok |-> TRUE, out |-> "predictions", model_id |-> r.model_id]
                   ELSE [op |-> "predict_with_explanation", resolved |-> TRUE,
                         step_ok |-> FALSE, out |-> "empty", model_id |-> ""]
      /\ UNCHANGED <<now, authVars, regVars, rlVars, tokVars, sessVars, clVars, monVars, secVars, lateVars>>

\* predict_ok, explain_ok: model.predict / model.explain_instance and the
\* bookkeeping in the try block do not raise
predict_with_explanation(model_id, request_id, ok1, ok2, predict_ok, explain_ok) ==
    \E hash_value \in BucketsOf(request_id) :
      LET r == get_model(model_id, hash_value, ok1, ok2) IN
      /\ model_cache' = r.cache
      /\ last_refresh' = r.refresh
      /\ mgrRet' = IF r.model = NoModel
                   THEN [op |-> "predict_with_explanation", resolved |-> FALSE,
                         step_ok |-> FALSE, out |-> "empty", model_id |-> ""]
                   ELSE IF predict_ok /\ explain_ok
                   THEN [op |-> "predict_with_explanation", resolved |-> TRUE,
                         step_ok |-> TRUE, out |-> "predictions", model_id |-> r.model_id]
                   ELSE [op |-> "predict_with_explanation", resolved |-> TRUE,
                         step_ok |-> FALSE, out |-> "empty", model_id |-> r.model_id]
      /\ UNCHANGED <<now, authVars, regVars, rlVars, tokVars, sessVars, clVars, monVars, secVars, lateVars>>

Predict ==
    \E c \in ModelCalls, ok1, ok2, predict_ok \in BOOLEAN :
      predict(c.model_id, c.request_id, ok1, ok2, predict_ok)

PredictWithExplanation ==
    \E c \in ModelCalls, ok1, ok2, predict_ok, explain_ok \in BOOLEAN :
      /\ predict_with_explanation(c.model_id, c.request_id, ok1, ok2, predict_ok, explain_ok)
      /\ UNCHANGED apiVars

\* time.time() advances
Tick ==
    /\ now + TickStep <= StartTime + MaxElapsed
    /\ now' = now + TickStep
    /\ UNCHANGED <<model_cache, last_refresh, mgrRet, authVars, regVars, sideVars>>

\* time.time() / datetime.now() advances by step seconds between the calls
\* of a component, for at most limit seconds
Advance(step, limit) ==
    /\ now + step <= StartTime + limit
    /\ now' = now + step
    /\ UNCHANGED <<model_cache, last_refresh, mgrRet, authVars, regVars, sideVars>>

(***************************************************************************)
(* Sliding-window rate limiters: the API middleware (per client IP) and    *)
(* the dashboard's check_rate_limit (per user id)                          *)
(***************************************************************************)
\* RateLimitMiddleware.window_size, and the 60 in check_rate_limit
window_size == 60

\* rate_limit = 100 (middleware) and max_requests = 60 (dashboard) are
\* arguments; both limiters are run with this smaller ceiling
MaxRequests == 2

\* the clock is followed for RlMaxElapsed seconds
RlMaxElapsed == 60

ClientIps == {"ip1", "ip2"}
UserIds   == {"u1"}

RECURSIVE SumCounts(_, _)
\* sum(self.request_counts[client_ip].values())
SumCounts(counts, tss) ==
    IF tss = {} THEN 0
    ELSE LET ts == CHOOSE t \in tss : TRUE
         IN counts[ts] + SumCounts(counts, tss \ {ts})

\* the dict that survives "Clean up old timestamps"
CleanCountsInclusive(counts, current_time) ==
    [ts \in {t \in DOMAIN counts : current_time - t <= window_size} |-> counts[ts]]

CleanCounts(counts, current_time) ==
    [ts \in {t \in DOMAIN counts : current_time - t < window_size} |-> counts[ts]]

\* _is_rate_limited(client_ip): its result and the request_counts it leaves
is_rate_limited(client_ip) ==
    LET current_time == now
        cleaned == CleanCounts(request_counts[client_ip], current_time)
        total_requests == SumCounts(cleaned, DOMAIN cleaned)
        put(d) == [ip \in DOMAIN request_counts \cup {client_ip} |->
                     IF ip = client_ip THEN d ELSE request_counts[ip]]
    IN  IF client_ip \notin DOMAIN request_counts
        THEN [limited |-> FALSE,
              counts |-> put([ts \in {current_time} |-> 1])]
        ELSE IF total_requests >= MaxRequests
        THEN [limited |-> TRUE, counts |-> put(cleaned)]
        ELSE [limited |-> FALSE,
              counts |-> put([ts \in DOMAIN cleaned \cup {current_time} |->
                                IF ts \in DOMAIN cleaned /\ ts = current_time
                                THEN cleaned[ts] + 1
                                ELSE IF ts = current_time THEN 1 ELSE cleaned[ts]])]

\* RateLimitMiddleware.dispatch: 429 with Retry-After, or the handler's response
dispatch(client_ip) ==
    LET r == is_rate_limited(client_ip) IN
    /\ request_counts' = r.counts
    /\ rlRet' = IF r.limited
                THEN [op |-> "dispatch", key |-> client_ip, allowed |-> FALSE,
                      status |-> 429, retry_after |-> window_size]
                ELSE [op |-> "dispatch", key |-> client_ip, allowed |-> TRUE,
                      status |-> 200, retry_after |-> -1]
    /\ rlLog' = IF r.limited
                THEN [rlLog EXCEPT ![client_ip].denied = now]
                ELSE [rlLog EXCEPT ![client_ip].times = Append(@, now)]
    /\ UNCHANGED <<rate_limits, coreVars, apiVars, tokVars, sessVars, clVars, monVars, secVars, lateVars>>

\* check_rate_limit(user_id, max_requests)
check_rate_limit(user_id) ==
    LET current_time == now
        minute_ago == current_time - window_size
        old == IF user_id \in DOMAIN rate_limits THEN rate_limits[user_id] ELSE << >>
        cleaned == SelectSeq(old, LAMBDA timestamp : timestamp > minute_ago)
        ok == Len(cleaned) < MaxRequests
        kept == IF ok THEN Append(cleaned, current_time) ELSE cleaned
    IN
    /\ rate_limits' = [u \in DOMAIN rate_limits \cup {user_id} |->
                         IF u = user_id THEN kept ELSE rate_limits[u]]
    /\ rlRet' = [op |-> "check_rate_limit", key |-> user_id, allowed |-> ok,
                 status |-> 0, retry_after |-> -1]
    /\ rlLog' = IF ok THEN [rlLog EXCEPT ![user_id].times = Append(@, now)]
                ELSE [rlLog EXCEPT ![user_id].denied = now]
    /\ UNCHANGED <<request_counts, coreVars, apiVars, tokVars, sessVars, clVars, monVars, secVars, lateVars>>

(***************************************************************************)
(* Scoring endpoints: POST /api/score and POST /api/batch-score            *)
(***************************************************************************)
\* news_sentiment is kept in hundredths
Hundredths(x) == x * 100

GoodItem == [issuer |-> "ABC", income |-> 75000, balance |-> 12000,
             transactions |-> 15, news_sentiment |-> Hundredths(1) \div 5]

\* request bodies: the fields arrive with the declared JSON types (the Field
\* constraints gt/ge/le of the request classes are not enforced by
\* src.utils.validation.Field)
CreditItems ==
    { GoodItem,
      [GoodItem EXCEPT !.income = -100000],
      [GoodItem EXCEPT !.transactions = -1, !.news_sentiment = Hundredths(3) \div 2],
      [GoodItem EXCEPT !.issuer = " "] }

\* the batches sent: up to MaxBatch items
MaxBatch == 2

\* validate_range(min_val, max_val) applied to one value: the errors it adds
validate_range(field, value, has_min, min_val, has_max, max_val) ==
    IF has_min /\ value < min_val
    THEN << [field |-> field, msg |-> "less than minimum"] >>
    ELSE IF has_max /\ value > max_val
    THEN << [field |-> field, msg |-> "greater than maximum"] >>
    ELSE << >>

\* validate_not_empty: "" and " " are the strings str.strip() empties
validate_not_empty(field, value) ==
    IF value \in {"", " "}
    THEN << [field |-> field, msg |-> "cannot be empty"] >>
    ELSE << >>

\* validate_credit_score_input: SchemaValidator.validate over the schema of
\* create_credit_score_validator, fields in the order of input_dict
validate_credit_score_input(data) ==
    LET errors ==
          validate_not_empty("issuer", data.issuer)
          \o validate_range("income", data.income, TRUE, 0, FALSE, 0)
          \o validate_range("balance", data.balance, TRUE, 0, FALSE, 0)
          \o validate_range("transactions", data.transactions, TRUE, 0, FALSE, 0)
          \o validate_range("news_sentiment", data.news_sentiment,
                            TRUE, Hundredths(-1), TRUE, Hundredths(1))
    IN [is_valid |-> Len(errors) = 0, errors |-> errors]

RECURSIVE ValidationErrors(_, _)
\* the validation_errors list batch_score_credit builds, with 0-based indexes
ValidationErrors(items, i) ==
    IF i > Len(items) THEN << >>
    ELSE LET v == validate_credit_score_input(items[i]) IN
         (IF v.is_valid THEN << >> ELSE << [index |-> i - 1, errors |-> v.errors] >>)
         \o ValidationErrors(items, i + 1)

\* what "except Exception" makes of an HTTPException raised inside the try
\* block: HTTPException is an Exception, so it is re-raised as a 500
ReRaised(status_code) == 500

\* score_credit
score_credit(item, model_id, request_id, ok1, ok2, predict_ok, explain_ok) ==
    LET validation_result == validate_credit_score_input(item) IN
    IF ~validation_result.is_valid
    THEN /\ apiRet' = [op |-> "score", items |-> <<item>>,
                       status |-> ReRaised(422), raised |-> 422,
                       errors |-> validation_result.errors,
                       batch_errors |-> << >>, invoked |-> FALSE, count |-> 0]
         /\ UNCHANGED <<coreVars, rlVars, tokVars, sessVars, clVars, monVars, secVars, lateVars>>
    ELSE /\ predict_with_explanation(model_id, request_id, ok1, ok2, predict_ok, explain_ok)
         /\ apiRet' = IF mgrRet'.out = "empty"
                      THEN [op |-> "score", items |-> <<item>>,
                            status |-> ReRaised(503), raised |-> 503,
                            errors |-> << >>, batch_errors |-> << >>,
                            invoked |-> TRUE, count |-> 0]
                      ELSE [op |-> "score", items |-> <<item>>,
                            status |-> 200, raised |-> 0,
                            errors |-> << >>, batch_errors |-> << >>,
                            invoked |-> TRUE, count |-> 1]

\* batch_score_credit
batch_score_credit(items, model_id, request_id, ok1, ok2, predict_ok, explain_ok) ==
    LET validation_errors == ValidationErrors(items, 1)
        input_data_list == SelectSeq(items,
                              LAMBDA it : validate_credit_score_input(it).is_valid)
    IN
    IF Len(validation_errors) > 0
    THEN /\ apiRet' = [op |-> "batch", items |-> items,
                       status |-> ReRaised(422), raised |-> 422,
                       errors |-> << >>, batch_errors |-> validation_errors,
                       invoked |-> FALSE, count |-> 0]
         /\ UNCHANGED <<coreVars, rlVars, tokVars, sessVars, clVars, monVars, secVars, lateVars>>
    ELSE IF Len(input_data_list) = 0
    THEN /\ apiRet' = [op |-> "batch", items |-> items,
                       status |-> ReRaised(422), raised |-> 422,
                       errors |-> << >>, batch_errors |-> << >>,
                       invoked |-> FALSE, count |-> 0]
         /\ UNCHANGED <<coreVars, rlVars, tokVars, sessVars, clVars, monVars, secVars, lateVars>>
    ELSE /\ predict_with_explanation(model_id, request_id, ok1, ok2, predict_ok, explain_ok)
         /\ apiRet' = IF mgrRet'.out = "empty"
                      THEN [op |-> "batch", items |-> items,
                            status |-> ReRaised(503), raised |-> 503,
                            errors |-> << >>, batch_errors |-> << >>,
                            invoked |-> TRUE, count |-> 0]
                      ELSE [op |-> "batch", items |-> items,
                            status |-> 200, raised |-> 0,
                            errors |-> << >>, batch_errors |-> << >>,
                            invoked |-> TRUE, count |-> Len(input_data_list)]

\* the request id is str(time.time()) + "-" + issuer, a string; model_id is
\* the optional query parameter. A request that fails validation reaches no
\* model, so the model manager's inputs are drawn for valid requests only.
\* step_ok: the model's predict and explain_instance do not raise
ScoreCredit ==
    \E item \in CreditItems :
      \/ /\ ~validate_credit_score_input(item).is_valid
         /\ score_credit(item, None, None, TRUE, TRUE, TRUE, TRUE)
      \/ /\ validate_credit_score_input(item).is_valid
         /\ \E model_id \in ModelIds \cup {None}, request_id \in RequestIds,
               ok1, ok2, step_ok \in BOOLEAN :
              score_credit(item, model_id, request_id, ok1, ok2, step_ok, step_ok)

BatchScoreCredit ==
    \E items \in UNION {[1..n -> CreditItems] : n \in 0..MaxBatch} :
      \/ /\ (Len(ValidationErrors(items, 1)) > 0 \/ Len(items) = 0)
         /\ batch_score_credit(items, None, None, TRUE, TRUE, TRUE, TRUE)
      \/ /\ Len(ValidationErrors(items, 1)) = 0 /\ Len(items) > 0
         /\ \E model_id \in ModelIds \cup {None}, request_id \in RequestIds,
               ok1, ok2, step_ok \in BOOLEAN :
              batch_score_credit(items, model_id, request_id, ok1, ok2, step_ok, step_ok)

(***************************************************************************)
(* Bearer tokens: create_access_token / decode_access_token (API) and      *)
(* SecurityManager.generate_jwt_token / verify_jwt_token, get_current_user *)
(***************************************************************************)
\* fake_users_db holds "admin"; the tests issue tokens for "testuser"
fake_users_db  == {"admin"}
Subjects       == {"admin", "testuser"}

\* access_token_expires = timedelta(minutes=30)
access_token_expire_seconds == 1800
\* remaining lifetimes a token is issued with: already expired, zero, default
Lifetimes == {-1, 0, access_token_expire_seconds}

\* "invalid.token.string"
GarbageToken == [kind |-> "garbage", key |-> None, sub |-> None, iat |-> 0, exp |-> 0]

\* at most MaxTokens tokens are issued; the clock is followed for
\* TokMaxElapsed seconds
MaxTokens     == 2
TokMaxElapsed == 1800

\* jwt.encode of a payload carrying the subject, iat and exp; key is the
\* signing secret: "api" for JWT_SECRET_KEY, "mgr" for SecurityManager.jwt_secret
jwt_encode(key, sub, expires_in) ==
    [kind |-> "jwt", key |-> key, sub |-> sub, iat |-> now, exp |-> now + expires_in]

\* the exp check of jwt.decode
jwt_expired_strict(exp, current_time) == exp < current_time

jwt_expired(exp, current_time) == exp <= current_time

\* jwt.decode(token, key): the payload, or which error it raises
jwt_decode(token, key) ==
    IF token.kind # "jwt" \/ token.key # key
    THEN [error |-> "InvalidTokenError", sub |-> None]
    ELSE IF jwt_expired(token.exp, now)
    THEN [error |-> "ExpiredSignatureError", sub |-> None]
    ELSE [error |-> None, sub |-> token.sub]

\* create_access_token(data={"sub": sub}, expires_delta)
create_access_token(sub, expires_delta) ==
    LET token == jwt_encode("api", sub, expires_delta) IN
    /\ Cardinality(tokens) < MaxTokens
    /\ tokens' = tokens \cup {token}
    /\ tokRet' = [op |-> "create_access_token", token |-> token,
                  result |-> "token", sub |-> sub, status |-> 0]
    /\ UNCHANGED <<coreVars, rlVars, apiVars, sessVars, clVars, monVars, secVars, lateVars>>

\* decode_access_token(token): the payload, or an HTTPException 401 whose
\* detail says expired or invalid
decode_access_token(token) ==
    LET r == jwt_decode(token, "api") IN
    IF r.error = "ExpiredSignatureError"
    THEN [result |-> "expired", sub |-> None, status |-> 401]
    ELSE IF r.error = "InvalidTokenError"
    THEN [result |-> "invalid", sub |-> None, status |-> 401]
    ELSE [result |-> "payload", sub |-> r.sub, status |-> 0]

\* get_current_user(token): the user, or credentials_exception (401)
get_current_user(token) ==
    LET payload == decode_access_token(token) IN
    IF payload.status = 401 \/ payload.sub = None \/ payload.sub \notin fake_users_db
    THEN [result |-> "credentials_exception", sub |-> None, status |-> 401]
    ELSE [result |-> "user", sub |-> payload.sub, status |-> 0]

\* SecurityManager.generate_jwt_token(user_data, expires_in)
generate_jwt_token(username, expires_in) ==
    LET token == jwt_encode("mgr", username, expires_in) IN
    /\ Cardinality(tokens) < MaxTokens
    /\ tokens' = tokens \cup {token}
    /\ tokRet' = [op |-> "generate_jwt_token", token |-> token,
                  result |-> "token", sub |-> username, status |-> 0]
    /\ UNCHANGED <<coreVars, rlVars, apiVars, sessVars, clVars, monVars, secVars, lateVars>>

\* SecurityManager.verify_jwt_token(token): the payload or None; the warning
\* logged tells an expired token from an invalid one
verify_jwt_token(token) ==
    LET r == jwt_decode(token, "mgr") IN
    IF r.error = "ExpiredSignatureError"
    THEN [result |-> "expired", sub |-> None, status |-> 0]
    ELSE IF r.error = "InvalidTokenError"
    THEN [result |-> "invalid", sub |-> None, status |-> 0]
    ELSE [result |-> "payload", sub |-> r.sub, status |-> 0]

\* a token, one that was issued or "invalid.token.string", is presented to
\* op, which answers outcome
TokenChecked(op, token, outcome) ==
    /\ tokRet' = [op |-> op, token |-> token] @@ outcome
    /\ UNCHANGED <<tokens, coreVars, rlVars, apiVars, sessVars, clVars, monVars, secVars, lateVars>>

(***************************************************************************)
(* Dashboard sessions: validate_session (app.py) and                       *)
(* SecurityManager.validate_session (security.py)                          *)
(***************************************************************************)
\* timedelta(hours=24), config['max_session_age']
max_session_age == 86400

\* the clock is followed for SessMaxElapsed seconds
SessMaxElapsed == 129600

\* a session opened at time t; started is when it really began. has_user:
\* username / user_id present; has_role: user_role present. start_kind is
\* what the session holds under session_start / created_at: an ISO timestamp
\* ("iso"), nothing ("absent") or a string fromisoformat rejects ("malformed")
NewSession(t, authenticated, has_user, has_role, start_kind) ==
    [started |-> t, authenticated |-> authenticated, has_user |-> has_user,
     has_role |-> has_role,
     session_start |-> [kind |-> start_kind, at |-> IF start_kind = "iso" THEN t ELSE 0]]

\* datetime.now() - created_time > timedelta(hours=24)
session_too_old_inclusive(created_time, current_time) ==
    current_time - created_time >= max_session_age

session_too_old(created_time, current_time) ==
    current_time - created_time > max_session_age

\* validate_session(session_state) of the dashboard
validate_session(session_state) ==
    IF ~session_state.authenticated THEN FALSE
    ELSE IF session_state.session_start.kind = "malformed" THEN FALSE
    ELSE IF /\ session_state.session_start.kind = "iso"
            /\ session_too_old(session_state.session_start.at, now)
    THEN FALSE
    ELSE IF ~session_state.has_user \/ ~session_state.has_role THEN FALSE
    ELSE TRUE

\* SecurityManager.validate_session(session_data): created_at and user_id
sm_validate_session(session_data) ==
    IF session_data.session_start.kind = "malformed" THEN FALSE
    ELSE IF /\ session_data.session_start.kind = "iso"
            /\ session_too_old(session_data.session_start.at, now)
    THEN FALSE
    ELSE IF ~session_data.has_user THEN FALSE
    ELSE TRUE

\* a new browser session replaces the previous one
OpenSession ==
    /\ \E authenticated, has_user, has_role \in BOOLEAN,
          start_kind \in {"iso", "absent", "malformed"} :
         session' = NewSession(now, authenticated, has_user, has_role, start_kind)
    /\ UNCHANGED <<sessRet, coreVars, rlVars, apiVars, tokVars, clVars, monVars, secVars, lateVars>>

\* every interaction re-runs the script, which validates the session: op
\* answers ok
SessionChecked(op, ok) ==
    /\ sessRet' = [op |-> op, ok |-> ok]
    /\ UNCHANGED <<session, coreVars, rlVars, apiVars, tokVars, clVars, monVars, secVars, lateVars>>

(***************************************************************************)
(* Several ModelRegistry objects over one registry.json                    *)
(***************************************************************************)
\* the processes (API workers, the CLI) that each hold a ModelRegistry
Clients == {"c1", "c2"}

\* the content of a registry: models and production (experiments are left
\* out here; they are saved the same way)
EmptyRegistry == [models |-> << >>, production |-> None]

\* what _save_registry leaves in registry.json
save_registry_merging(c) ==
    [exists |-> TRUE,
     registry |-> [models |-> [m \in DOMAIN registry_file.registry.models
                                      \cup DOMAIN client_registry[c].registry.models |->
                                IF m \in DOMAIN client_registry[c].registry.models
                                THEN client_registry[c].registry.models[m]
                                ELSE registry_file.registry.models[m]],
                   production |-> client_registry[c].registry.production]]

save_registry(c) ==
    [exists |-> TRUE, registry |-> client_registry[c].registry]

\* ModelRegistry.__init__: load registry.json if it exists, else create it
ClientOpen(c) ==
    /\ client_registry[c].pc = "idle"
    /\ ~client_registry[c].open
    /\ client_registry' = [client_registry EXCEPT
                             ![c] = [open |-> TRUE, pc |-> "idle",
                                     registry |-> registry_file.registry]]
    /\ registry_file' = IF registry_file.exists THEN registry_file
                        ELSE [exists |-> TRUE, registry |-> EmptyRegistry]
    /\ clLog' = IF registry_file.exists THEN clLog
                ELSE [clLog EXCEPT !.last_writer = c]
    /\ clRet' = [client |-> c, op |-> "open", out |-> None, error |-> FALSE]
    /\ UNCHANGED <<coreVars, rlVars, apiVars, tokVars, sessVars, monVars, secVars, lateVars>>

\* register_model up to its _save_registry call: a fresh uuid4 is added to
\* the object's own registry
ClientRegister(c) ==
    /\ client_registry[c].open /\ client_registry[c].pc = "idle"
    /\ \E model_id \in ModelPool \ clLog.returned :
         /\ client_registry' =
              [client_registry EXCEPT
                 ![c].pc = "save",
                 ![c].registry.models =
                     [m \in DOMAIN @ \cup {model_id} |->
                        IF m = model_id THEN "registered" ELSE @[m]]]
         /\ clLog' = [clLog EXCEPT !.returned = @ \cup {model_id}]
         /\ clRet' = [client |-> c, op |-> "register_model", out |-> model_id,
                      error |-> FALSE]
    /\ UNCHANGED <<registry_file, coreVars, rlVars, apiVars, tokVars, sessVars, monVars, secVars, lateVars>>

\* promote_to_production up to its _save_registry call; an id the object
\* does not know is answered False and nothing is saved
ClientPromote(c) ==
    /\ client_registry[c].open /\ client_registry[c].pc = "idle"
    /\ \E model_id \in ModelPool :
         IF model_id \notin DOMAIN client_registry[c].registry.models
         THEN /\ clRet' = [client |-> c, op |-> "promote_to_production",
                           out |-> "False", error |-> FALSE]
              /\ UNCHANGED <<client_registry>>
         ELSE /\ client_registry' =
                   [client_registry EXCEPT
                      ![c].pc = "save",
                      ![c].registry.models[model_id] = "production",
                      ![c].registry.production = model_id]
              /\ clRet' = [client |-> c, op |-> "promote_to_production",
                           out |-> "True", error |-> FALSE]
    /\ UNCHANGED <<registry_file, clLog, coreVars, rlVars, apiVars, tokVars, sessVars, monVars, secVars, lateVars>>

\* the _save_registry call that ends register_model / promote_to_production
ClientSave(c) ==
    /\ client_registry[c].pc = "save"
    /\ registry_file' = save_registry(c)
    /\ client_registry' = [client_registry EXCEPT ![c].pc = "idle"]
    /\ clLog' = [clLog EXCEPT !.last_writer = c]
    /\ clRet' = [client |-> c, op |-> "_save_registry", out |-> None, error |-> FALSE]
    /\ UNCHANGED <<coreVars, rlVars, apiVars, tokVars, sessVars, monVars, secVars, lateVars>>

\* the process of a client ends; a later one constructs a new ModelRegistry
ClientClose(c) ==
    /\ client_registry[c].open /\ client_registry[c].pc = "idle"
    /\ client_registry' = [client_registry EXCEPT
                             ![c] = [open |-> FALSE, pc |-> "idle",
                                     registry |-> EmptyRegistry]]
    /\ clRet' = [client |-> c, op |-> "close", out |-> None, error |-> FALSE]
    /\ UNCHANGED <<registry_file, clLog, coreVars, rlVars, apiVars, tokVars, sessVars, monVars, secVars, lateVars>>

(***************************************************************************)
(* Monitoring: MetricsMonitor start / stop / monitor_loop and the          *)
(* MetricsCollector counters                                               *)
(***************************************************************************)
\* the threads start() may create, in order of creation
MaxThreads == 2
ThreadIds  == 1..MaxThreads

\* what is counted, for one endpoint: requests, errors, response times
Kinds == {"requests", "errors", "response_times"}
\* at most MaxRecorded events of each kind are recorded
MaxRecorded == 1

\* the threads created so far are 1..Started
Started == Cardinality({t \in ThreadIds : thread_pc[t] # "unstarted"})

\* MetricsMonitor.start (start_monitoring): a no-op while running
StartMonitoring ==
    /\ main_pc = "idle"
    /\ IF running
       THEN UNCHANGED <<running, monitor_thread, thread_pc>>
       ELSE /\ Started < MaxThreads
            /\ running' = TRUE
            /\ monitor_thread' = Started + 1
            /\ thread_pc' = [thread_pc EXCEPT ![Started + 1] = "test"]
    /\ UNCHANGED <<main_pc, collector, mcLog, coreVars, rlVars, apiVars, tokVars, sessVars, clVars, secVars, lateVars>>

\* MetricsMonitor.stop (stop_monitoring) up to the join
StopMonitoring ==
    /\ main_pc = "idle"
    /\ IF running
       THEN /\ running' = FALSE
            /\ main_pc' = IF monitor_thread # 0 THEN "join" ELSE "idle"
       ELSE UNCHANGED <<running, main_pc>>
    /\ UNCHANGED <<monitor_thread, thread_pc, collector, mcLog, coreVars, rlVars, apiVars, tokVars, sessVars, clVars, secVars, lateVars>>

\* monitor_thread.join(timeout=5.0) returns: the thread has ended, or the
\* five seconds are over while it still sleeps (a loop test or collection in
\* progress is taken to end within the five seconds; the sleep lasts
\* collection_interval, 60 seconds)
JoinReturns ==
    /\ main_pc = "join"
    /\ thread_pc[monitor_thread] \in {"sleep", "ended"}
    /\ main_pc' = "idle"
    /\ UNCHANGED <<running, monitor_thread, thread_pc, collector, mcLog,
                   coreVars, rlVars, apiVars, tokVars, sessVars, clVars, secVars, lateVars>>

\* monitor_loop: while self.running
LoopTest(t) ==
    /\ thread_pc[t] = "test"
    /\ thread_pc' = [thread_pc EXCEPT ![t] = IF running THEN "collect" ELSE "ended"]
    /\ UNCHANGED <<running, monitor_thread, main_pc, collector, mcLog,
                   coreVars, rlVars, apiVars, tokVars, sessVars, clVars, secVars, lateVars>>

\* monitor_loop: collect_all_metrics; collect_app_metrics builds the
\* snapshot from the counters
LoopCollect(t) ==
    /\ thread_pc[t] = "collect"
    /\ thread_pc' = [thread_pc EXCEPT ![t] = "reset"]
    /\ mcLog' = [mcLog EXCEPT
                   !.reported = [k \in Kinds |-> @[k] + collector[k]]]
    /\ UNCHANGED <<running, monitor_thread, main_pc, collector, coreVars, rlVars, apiVars, tokVars, sessVars, clVars, secVars, lateVars>>

\* monitor_loop: collect_app_metrics then resets the counters ("Reset
\* counters for next collection period"), then save_metrics,
\* check_alerts and time.sleep(collection_interval)
LoopReset(t) ==
    /\ thread_pc[t] = "reset"
    /\ collector' = [k \in Kinds |-> 0]
    /\ thread_pc' = [thread_pc EXCEPT ![t] = "sleep"]
    /\ UNCHANGED <<running, monitor_thread, main_pc, mcLog, coreVars, rlVars, apiVars, tokVars, sessVars, clVars, secVars, lateVars>>

\* monitor_loop: time.sleep returns
LoopWake(t) ==
    /\ thread_pc[t] = "sleep"
    /\ thread_pc' = [thread_pc EXCEPT ![t] = "test"]
    /\ UNCHANGED <<running, monitor_thread, main_pc, collector, mcLog,
                   coreVars, rlVars, apiVars, tokVars, sessVars, clVars, secVars, lateVars>>

\* record_request / record_error / record_response_time for the endpoint
Record(k) ==
    /\ main_pc = "idle"
    /\ mcLog.recorded[k] < MaxRecorded
    /\ collector' = [collector EXCEPT ![k] = @ + 1]
    /\ mcLog' = [mcLog EXCEPT !.recorded[k] = @ + 1]
    /\ UNCHANGED <<running, monitor_thread, thread_pc, main_pc, coreVars, rlVars, apiVars, tokVars, sessVars, clVars, secVars, lateVars>>

\* get_current_metrics: collect_all_metrics on the thread that serves the
\* request; it reads the counters ...
GetCurrentMetricsRead ==
    /\ main_pc = "idle"
    /\ main_pc' = "reset"
    /\ mcLog' = [mcLog EXCEPT
                   !.reported = [k \in Kinds |-> @[k] + collector[k]]]
    /\ UNCHANGED <<running, monitor_thread, thread_pc, collector, coreVars, rlVars, apiVars, tokVars, sessVars, clVars, secVars, lateVars>>

\* ... and resets them
GetCurrentMetricsReset ==
    /\ main_pc = "reset"
    /\ collector' = [k \in Kinds |-> 0]
    /\ main_pc' = "idle"
    /\ UNCHANGED <<running, monitor_thread, thread_pc, mcLog, coreVars, rlVars, apiVars, tokVars, sessVars, clVars, secVars, lateVars>>

(***************************************************************************)
(* Encrypted persistence: secure_save_json / secure_load_json and the      *)
(* save_users / get_users built on them                                    *)
(***************************************************************************)
\* the user databases handed to save_users: some users, each with a role
UserDbs == UNION {[S -> Roles] : S \in SUBSET Usernames}

\* what CREDTECH_ENCRYPTION_KEY can hold: nothing; the Fernet key as
\* get_encryption_key logs it ("Set the following environment variable");
\* the base64 encoding of such a key; a string base64 decoding rejects
EnvKeys == {"unset", "fernet_key", "b64_of_fernet_key", "not_base64"}

\* the application is started with another CREDTECH_ENCRYPTION_KEY; what was
\* saved under the previous one is no longer followed
StartWithKey(key) ==
    /\ key # env_key
    /\ env_key' = key
    /\ secLog' = [saved |-> FALSE, data |-> << >>]
    /\ secRet' = [op |-> "start", raised |-> FALSE, data |-> << >>]
    /\ UNCHANGED <<users_file, coreVars, rlVars, apiVars, tokVars, sessVars, clVars, monVars, lateVars>>

\* get_encryption_key(): the decoded environment value, or, without a valid
\* one, Fernet.generate_key(): a new random key at every call, kept nowhere
get_encryption_key ==
    IF env_key = "b64_of_fernet_key" THEN [form |-> "fernet", id |-> "env"]
    ELSE IF env_key = "fernet_key" THEN [form |-> "raw32", id |-> "env"]
    ELSE [form |-> "fernet", id |-> "generated"]

\* get_cipher(): Fernet(key) takes a url-safe base64 key of 32 bytes and
\* raises on the 32 raw bytes
get_cipher ==
    LET key == get_encryption_key IN
    [raised |-> key.form # "fernet", key |-> key.id]

\* encrypt_data(data): json.dumps, encrypt; DataError when that fails
encrypt_data(data) ==
    LET cipher == get_cipher IN
    IF cipher.raised THEN [raised |-> TRUE, key |-> "none", data |-> << >>]
    ELSE [raised |-> FALSE, key |-> cipher.key, data |-> data]

\* decrypt_data(encrypted_data): decrypt, json.loads; DataError when that
\* fails. cipher.decrypt works under the key that encrypted, and two
\* generated keys never agree
decrypt_data(encrypted) ==
    LET cipher == get_cipher IN
    IF cipher.raised \/ ~(encrypted.key = "env" /\ cipher.key = "env")
    THEN [raised |-> TRUE, data |-> << >>]
    ELSE [raised |-> FALSE, data |-> encrypted.data]

\* secure_save_json(data, USER_DB_PATH, encrypt=True): the file it leaves and
\* whether it raised DataError
secure_save_json(data, file) ==
    LET encrypted_data == encrypt_data(data) IN
    IF encrypted_data.raised
    THEN [raised |-> TRUE, file |-> file]
    ELSE [raised |-> FALSE,
          file |-> [exists |-> TRUE, encrypted |-> TRUE,
                    key |-> encrypted_data.key, data |-> encrypted_data.data]]

\* secure_load_json(USER_DB_PATH)
secure_load_json(file) ==
    IF ~file.exists THEN [raised |-> FALSE, data |-> << >>]
    ELSE IF file.encrypted THEN decrypt_data(file)
    ELSE [raised |-> FALSE, data |-> file.data]

\* save_users(users): a failure to save is logged and swallowed
save_users(users_arg) ==
    LET r == secure_save_json(users_arg, users_file) IN
    /\ users_file' = r.file
    /\ secLog' = [saved |-> TRUE, data |-> users_arg]
    /\ secRet' = [op |-> "save_users", raised |-> FALSE, data |-> << >>]
    /\ UNCHANGED <<env_key, coreVars, rlVars, apiVars, tokVars, sessVars, clVars, monVars, lateVars>>

\* get_users(): ensure_user_db_exists (outside the try), which writes the
\* default admin when there is no users.json, then secure_load_json, an
\* error of which is answered {}
get_users ==
    LET ensured == IF users_file.exists
                   THEN [raised |-> FALSE, file |-> users_file]
                   ELSE secure_save_json([u \in {"admin"} |-> "admin"], users_file)
        loaded == secure_load_json(ensured.file)
    IN
    /\ users_file' = ensured.file
    /\ secRet' = IF ensured.raised
                 THEN [op |-> "get_users", raised |-> TRUE, data |-> << >>]
                 ELSE IF loaded.raised
                 THEN [op |-> "get_users", raised |-> FALSE, data |-> << >>]
                 ELSE [op |-> "get_users", raised |-> FALSE, data |-> loaded.data]
    /\ UNCHANGED <<env_key, secLog, coreVars, rlVars, apiVars, tokVars, sessVars, clVars, monVars, lateVars>>

(***************************************************************************)
(* Ingestion: DataIngestionManager.ingest_all                              *)
(***************************************************************************)
\* the sources ingest/main.py registers
Sources == {"financial_data", "sample_data", "credit_history"}

\* what becomes of a source in one run: it was not added; its load_data
\* raises (CSV file missing); it returns rows; it returns the empty table
\* of the database fallback; it returns rows whose asof_date holds a string
\* pd.to_datetime rejects
LoadOutcomes == {"unregistered", "raises", "rows", "empty", "bad_dates"}

\* ingest_all(): load every source, concatenate, coerce asof_date
ingest_all(how) ==
    LET registered == {name \in Sources : how[name] # "unregistered"}
        dfs == {name \in registered : how[name] # "raises"}
        raised == IF dfs = {} THEN "ValueError"
                  ELSE IF \E name \in dfs : how[name] = "bad_dates"
                  THEN "to_datetime"
                  ELSE None
    IN
    /\ ingest' = [op |-> "ingest_all", how |-> how, called |-> registered,
                  raised |-> raised,
                  rows |-> IF raised = None
                           THEN {name \in dfs : how[name] # "empty"} ELSE {}]
    /\ UNCHANGED <<coreVars, midVars, extapi, memo, lru, page_state, history,
                   trainRet, lockout>>

(***************************************************************************)
(* External API client: BaseAPIClient._check_rate_limit and request        *)
(***************************************************************************)
\* RATE_LIMIT_CONFIG[provider]: requests_per_minute (5 or 10 in the source)
\* and requests_per_day (100 to 1000), run here with smaller ceilings
ReqPerMinute == 2
ReqPerDay    == 3

\* at most MaxSent requests are sent; the clock is followed for ApiMaxElapsed
\* seconds
MaxSent       == 4
ApiMaxElapsed == 120

\* how the provider answers a request that is sent: a 200 with JSON, an
\* error status, no connection, no answer in time
Answers == {"ok", "http_error", "connection_error", "timeout"}

\* _check_rate_limit(): the timestamps it keeps, how long it sleeps and
\* whether it raises RateLimitExceeded
api_check_rate_limit ==
    LET current_time == now
        minute_ago == current_time - 60
        day_ago == current_time - 86400
        kept == SelectSeq(extapi.timestamps, LAMBDA ts : ts > day_ago)
        requests_last_minute == Len(SelectSeq(kept, LAMBDA ts : ts > minute_ago))
        minute_full == requests_last_minute >= ReqPerMinute
        wait_time == IF minute_full
                     THEN 60 - (current_time - kept[Len(kept) - ReqPerMinute + 1])
                     ELSE 0
    IN  [timestamps |-> kept,
         minute_full |-> minute_full,
         day_full |-> Len(kept) >= ReqPerDay,
         slept |-> IF wait_time > 0 THEN wait_time ELSE 0,
         raised |-> Len(kept) >= ReqPerDay]

\* request(endpoint): the guard, then session.request; the timestamp is
\* appended once a response has come back
request(answer) ==
    LET guard == api_check_rate_limit
        sent_at == now + guard.slept
        answered == answer \in {"ok", "http_error"}
    IN
    /\ Len(extapi.sent) < MaxSent
    /\ sent_at <= StartTime + ApiMaxElapsed
    /\ now' = sent_at
    /\ extapi' =
         IF guard.raised
         THEN [extapi EXCEPT !.timestamps = guard.timestamps,
                             !.ret = [op |-> "request", minute_full |-> guard.minute_full,
                                      day_full |-> guard.day_full, slept |-> guard.slept,
                                      sent |-> FALSE, raised |-> "RateLimitExceeded"]]
         ELSE [timestamps |-> IF answered THEN Append(guard.timestamps, sent_at)
                              ELSE guard.timestamps,
               sent |-> Append(extapi.sent, sent_at),
               ret |-> [op |-> "request", minute_full |-> guard.minute_full,
                        day_full |-> guard.day_full, slept |-> guard.slept,
                        sent |-> TRUE,
                        raised |-> IF answer = "ok" THEN None ELSE "APIError"]]
    /\ UNCHANGED <<authVars, regVars, model_cache, last_refresh, mgrRet, midVars,
                   ingest, memo, lru, page_state, history, trainRet, lockout>>

(***************************************************************************)
(* Caches: LRUCache (the global lru_cache) and the cache_result decorator   *)
(***************************************************************************)
\* cache_result(ttl: int = 300)
ttl == 300

\* LRUCache(max_size=1000), run here with a smaller capacity; at most
\* MaxCacheOps get hits and puts are followed, for MemoMaxElapsed seconds
LruMaxSize     == 2
MaxCacheOps    == 4
MemoMaxElapsed == 600

\* cache keys f"{func.__name__}:{hash(str(args) + ...)}" of one decorated
\* function called with three different arguments
CacheKeys == {"f:a", "f:b", "f:c"}

\* LRUCache.get(key) on an OrderedDict kept as a sequence, oldest first
lru_get(cache, key) ==
    IF \E i \in 1..Len(cache) : cache[i].key = key
    THEN LET i == CHOOSE j \in 1..Len(cache) : cache[j].key = key
             value == cache[i].value
         IN [hit |-> TRUE, value |-> value,
             cache |-> Append(SelectSeq(cache, LAMBDA e : e.key # key),
                              [key |-> key, value |-> value])]
    ELSE [hit |-> FALSE, value |-> -1, cache |-> cache]

\* LRUCache.put(key, value): the OrderedDict it leaves
lru_put_evicting_newest(cache, key, value) ==
    IF \E i \in 1..Len(cache) : cache[i].key = key
    THEN Append(SelectSeq(cache, LAMBDA e : e.key # key), [key |-> key, value |-> value])
    ELSE IF Len(cache) >= LruMaxSize
    THEN Append(SubSeq(cache, 1, Len(cache) - 1), [key |-> key, value |-> value])
    ELSE Append(cache, [key |-> key, value |-> value])

lru_put(cache, key, value) ==
    IF \E i \in 1..Len(cache) : cache[i].key = key
    THEN Append(SelectSeq(cache, LAMBDA e : e.key # key), [key |-> key, value |-> value])
    ELSE IF Len(cache) >= LruMaxSize
    THEN Append(Tail(cache), [key |-> key, value |-> value])
    ELSE Append(cache, [key |-> key, value |-> value])

\* the wrapper of cache_result on thread t, up to the call of func: the
\* cached result is returned if lru_cache.get finds one.  A result is
\* modelled by the time func computed it.  lru.used and lru.ops are history:
\* when each key was last read or written, counted in get hits and puts
cache_result_get(t, key) ==
    LET got == lru_get(lru.cache, key) IN
    /\ memo.pc[t] = "idle"
    /\ got.hit => lru.ops < MaxCacheOps
    /\ lru' = [cache |-> got.cache,
               ops |-> IF got.hit THEN lru.ops + 1 ELSE lru.ops,
               used |-> IF got.hit THEN [lru.used EXCEPT ![key] = lru.ops + 1]
                        ELSE lru.used,
               last |-> [op |-> "get", key |-> key, hit |-> got.hit]]
    /\ memo' = IF got.hit
               THEN [memo EXCEPT !.ret = [op |-> "call", thread |-> t, key |-> key,
                                          cached |-> TRUE, computed_at |-> got.value,
                                          returned_at |-> now]]
               ELSE [memo EXCEPT !.pc[t] = key]
    /\ UNCHANGED <<coreVars, midVars, ingest, extapi, page_state, history,
                   trainRet, lockout>>

\* the wrapper on thread t after a miss: func runs, its result is put in
\* lru_cache and returned
cache_result_put(t) ==
    LET key == memo.pc[t] IN
    /\ memo.pc[t] # "idle"
    /\ lru.ops < MaxCacheOps
    /\ lru' = [cache |-> lru_put(lru.cache, key, now), ops |-> lru.ops + 1,
               used |-> [lru.used EXCEPT ![key] = lru.ops + 1],
               last |-> [op |-> "put", key |-> key, hit |-> FALSE]]
    /\ memo' = [pc |-> [memo.pc EXCEPT ![t] = "idle"],
                ret |-> [op |-> "call", thread |-> t, key |-> key, cached |-> FALSE,
                         computed_at |-> now, returned_at |-> now]]
    /\ UNCHANGED <<coreVars, midVars, ingest, extapi, page_state, history,
                   trainRet, lockout>>

(***************************************************************************)
(* Dashboard: router(), the navigation callbacks, the prediction history   *)
(***************************************************************************)
\* the page names router() dispatches on
Pages == {"main", "documentation", "settings", "monitoring", "user_management",
          "log_viewer"}

\* at most MaxScored requests are scored in the session
MaxScored == 7

\* show_main_page .. show_log_viewer_page: the page is stored, then
\* log_page_view(page, {...}) is called with two arguments although
\* streamlit_logging.log_page_view takes page_name only
show_page(page) ==
    /\ page_state' = [op |-> "navigate", authenticated |-> TRUE,
                      current_page |-> page_state.page, outcome |-> "none",
                      page |-> page, rendered |-> page_state.rendered,
                      raised |-> "TypeError"]
    /\ UNCHANGED <<coreVars, midVars, ingest, extapi, memo, lru, history,
                   trainRet, lockout>>

\* router() under @handle_error, for a session that is_authenticated() or is
\* not; outcome is what the dispatched page function does
router(authenticated, outcome) ==
    LET current_page == page_state.page
        \* a call raises TypeError when it passes a keyword the callee does
        \* not declare
        binds(given, params) == given \subseteq params
        \* streamlit_logging.log_security_event(event_type, details)
        security_event_ok ==
            binds({"event_type", "user_id", "details"}, {"event_type", "details"})
        \* structured_logging.log_structured_error(error_type, message,
        \*                                         details, stack_trace)
        structured_error_ok ==
            binds({"error_type", "error_message", "source", "context", "stack_trace"},
                  {"error_type", "message", "details", "stack_trace"})
        \* streamlit_logging.log_page_view(page_name), called with two
        page_view_ok == 2 <= 1
        dispatched == current_page \in Pages /\ outcome = "renders"
        \* handle_error's answer to an exception that leaves router()
        unexpected(page) == [page |-> page, rendered |-> "unexpected_error",
                             raised |-> "TypeError"]
        after ==
            IF ~authenticated
            THEN [page |-> current_page, rendered |-> "login", raised |-> None]
            ELSE IF ~security_event_ok THEN unexpected(current_page)
            ELSE IF dispatched
            THEN [page |-> current_page, rendered |-> current_page, raised |-> None]
            ELSE IF ~structured_error_ok THEN unexpected(current_page)
            ELSE IF ~page_view_ok THEN unexpected("main")
            ELSE IF current_page = "main"
            THEN [page |-> "main", rendered |-> "unexpected_error",
                  raised |-> "Exception"]
            ELSE [page |-> "main", rendered |-> "main", raised |-> None]
    IN
    /\ page_state' = [op |-> "router", authenticated |-> authenticated,
                      current_page |-> current_page, outcome |-> outcome,
                      page |-> after.page, rendered |-> after.rendered,
                      raised |-> after.raised]
    /\ UNCHANGED <<coreVars, midVars, ingest, extapi, memo, lru, history,
                   trainRet, lockout>>

\* display_prediction_results: the scored request is appended to
\* st.session_state['prediction_history']
display_prediction_results(score) ==
    /\ Len(history.entries) < MaxScored
    /\ history' = [history EXCEPT !.entries = Append(@, score)]
    /\ UNCHANGED <<coreVars, midVars, ingest, extapi, memo, lru, page_state,
                   trainRet, lockout>>

\* display_recent_predictions: prediction_history[-5:], newest first
display_recent_predictions ==
    LET n == Len(history.entries)
        recent == SubSeq(history.entries, IF n > 5 THEN n - 4 ELSE 1, n)
    IN
    /\ history' = [history EXCEPT
                     !.shown = [i \in 1..Len(recent) |-> recent[Len(recent) + 1 - i]]]
    /\ UNCHANGED <<coreVars, midVars, ingest, extapi, memo, lru, page_state,
                   trainRet, lockout>>

(***************************************************************************)
(* Training pipeline: run_model_training and save_training_artifacts       *)
(***************************************************************************)
run_model_training_promoting(model_id, trained, register, promote, path_ok) ==
    LET registered == trained /\ register /\ path_ok
        id == IF registered THEN model_id ELSE None
        promoted == trained /\ id # None
    IN
    /\ model_id \notin DOMAIN models
    /\ models' = IF registered
                 THEN [m \in DOMAIN models \cup {model_id} |->
                         IF m = model_id
                         THEN (IF promoted THEN "production" ELSE "registered")
                         ELSE models[m]]
                 ELSE models
    /\ production' = IF promoted THEN model_id ELSE production
    /\ trainRet' = [op |-> "run_model_training", flip |-> ~trainRet.flip,
                    trained |-> trained, register |-> register,
                    promote |-> promote, path_ok |-> path_ok, model_id |-> id]
    /\ UNCHANGED <<experiments, default_traffic_split, strhash, regRet>>
    /\ UNCHANGED <<authVars, mgrVars, midVars, ingest, extapi, memo, lru,
                   page_state, history, lockout>>

\* run_model_training(register, promote_to_production): model_id is the id
\* uuid4 would hand to register_model; trained: loading the features,
\* training and explaining do not raise; path_ok: save_model wrote the
\* artifact, so that shutil.copy in register_model finds it.  The model is
\* registered by save_training_artifacts (an exception of register_model is
\* caught there and leaves model_id None), then promoted through a second
\* ModelRegistry() if promotion was asked for and model_id is set.
run_model_training(model_id, trained, register, promote, path_ok) ==
    LET registered == trained /\ register /\ path_ok
        id == IF registered THEN model_id ELSE None
        promoted == trained /\ promote /\ id # None
    IN
    /\ model_id \notin DOMAIN models
    /\ models' = IF registered
                 THEN [m \in DOMAIN models \cup {model_id} |->
                         IF m = model_id
                         THEN (IF promoted THEN "production" ELSE "registered")
                         ELSE models[m]]
                 ELSE models
    /\ production' = IF promoted THEN model_id ELSE production
    /\ trainRet' = [op |-> "run_model_training", flip |-> ~trainRet.flip,
                    trained |-> trained, register |-> register,
                    promote |-> promote, path_ok |-> path_ok, model_id |-> id]
    /\ UNCHANGED <<experiments, default_traffic_split, strhash, regRet>>
    /\ UNCHANGED <<authVars, mgrVars, midVars, ingest, extapi, memo, lru,
                   page_state, history, lockout>>

(***************************************************************************)
(* SecurityManager: login lockout                                          *)
(***************************************************************************)
\* SecurityManager.config
max_login_attempts == 5
lockout_duration   == 900

\* at most MaxFailed failed logins are recorded per username; the clock is
\* followed for LockMaxElapsed seconds
MaxFailed      == 6
LockMaxElapsed == 1800

\* record_failed_login(username): failed_attempts[username] is the pair
\* (attempts, lockout_until); lockout.calls and lockout.last_at are history:
\* the failures recorded for the username since a lockout of it last ran
\* out, and the times of the fifth and of the latest of them
record_failed_login(username) ==
    LET fa == lockout.failed_attempts
        attempts == IF username \in DOMAIN fa THEN fa[username].attempts + 1 ELSE 1
        entry == IF attempts >= max_login_attempts
                 THEN [attempts |-> attempts, lockout_until |-> now + lockout_duration]
                 ELSE [attempts |-> attempts, lockout_until |-> 0]
        calls == lockout.calls[username] + 1
    IN
    /\ lockout.calls[username] < MaxFailed
    /\ lockout' = [lockout EXCEPT
                     !.failed_attempts = [u \in DOMAIN fa \cup {username} |->
                                            IF u = username THEN entry ELSE fa[u]],
                     !.calls[username] = calls,
                     !.fifth_at[username] =
                         IF calls = max_login_attempts THEN now ELSE @,
                     !.last_at[username] = now,
                     !.ret = [op |-> "record_failed_login", username |-> username,
                              ok |-> TRUE, remaining |-> 0, cleared |-> FALSE,
                              calls |-> calls, fifth_at |-> -1, last_at |-> now,
                              at |-> now]]
    /\ UNCHANGED <<coreVars, midVars, ingest, extapi, memo, lru, page_state,
                   history, trainRet>>

\* check_login_attempts(username) -> (allowed, remaining seconds)
check_login_attempts(username) ==
    LET fa == lockout.failed_attempts
        locked == username \in DOMAIN fa /\ now < fa[username].lockout_until
        calls == lockout.calls[username]
        ran_out == /\ calls >= max_login_attempts
                   /\ now >= lockout.last_at[username] + lockout_duration
    IN
    /\ lockout' = [lockout EXCEPT
                     !.failed_attempts =
                         IF locked THEN @
                         ELSE [u \in DOMAIN fa \ {username} |-> fa[u]],
                     !.calls[username] = IF ran_out THEN 0 ELSE @,
                     !.ret = [op |-> "check_login_attempts", username |-> username,
                              ok |-> ~locked,
                              remaining |-> IF locked
                                            THEN fa[username].lockout_until - now
                                            ELSE 0,
                              cleared |-> ~locked,
                              calls |-> calls,
                              fifth_at |-> lockout.fifth_at[username],
                              last_at |-> lockout.last_at[username],
                              at |-> now]]
    /\ UNCHANGED <<coreVars, midVars, ingest, extapi, memo, lru, page_state,
                   history, trainRet>>

\* the side components as constructed
SideInit ==
    \* RateLimitMiddleware.__init__; st.session_state.rate_limits
    /\ request_counts = << >>
    /\ rate_limits = << >>
    /\ rlLog = [k \in ClientIps \cup UserIds |-> [times |-> << >>, denied |-> -1]]
    /\ rlRet = [op |-> "init", key |-> None, allowed |-> TRUE, status |-> 0,
                retry_after |-> -1]
    \* no request answered yet
    /\ apiRet = [op |-> "init", items |-> << >>, status |-> 0, raised |-> 0,
                 errors |-> << >>, batch_errors |-> << >>, invoked |-> FALSE,
                 count |-> 0]
    \* no token issued yet
    /\ tokens = {}
    /\ tokRet = [op |-> "init", token |-> GarbageToken, result |-> "none",
                 sub |-> None, status |-> 0]
    \* a browser session that has not logged in
    /\ session = NewSession(StartTime, FALSE, FALSE, FALSE, "absent")
    /\ sessRet = [op |-> "init", ok |-> FALSE]
    \* no registry.json, no ModelRegistry object
    /\ registry_file = [exists |-> FALSE, registry |-> EmptyRegistry]
    /\ client_registry = [c \in Clients |->
                            [open |-> FALSE, pc |-> "idle", registry |-> EmptyRegistry]]
    /\ clLog = [returned |-> {}, last_writer |-> None]
    /\ clRet = [client |-> None, op |-> "init", out |-> None, error |-> FALSE]
    \* MetricsMonitor.__init__ / MetricsCollector.__init__
    /\ running = FALSE
    /\ monitor_thread = 0
    /\ thread_pc = [t \in ThreadIds |-> "unstarted"]
    /\ main_pc = "idle"
    /\ collector = [k \in Kinds |-> 0]
    /\ mcLog = [recorded |-> [k \in Kinds |-> 0], reported |-> [k \in Kinds |-> 0]]
    \* CREDTECH_ENCRYPTION_KEY is not set and there is no users.json yet
    /\ env_key = "unset"
    /\ users_file = [exists |-> FALSE, encrypted |-> FALSE, key |-> "none",
                     data |-> << >>]
    /\ secLog = [saved |-> FALSE, data |-> << >>]
    /\ secRet = [op |-> "init", raised |-> FALSE, data |-> << >>]
    \* DataIngestionManager(): nothing ingested yet
    /\ ingest = [op |-> "init", how |-> [name \in Sources |-> "unregistered"],
                 called |-> {}, raised |-> None, rows |-> {}]
    \* BaseAPIClient.__init__: no request made yet
    /\ extapi = [timestamps |-> << >>, sent |-> << >>,
                 ret |-> [op |-> "init", minute_full |-> FALSE, day_full |-> FALSE,
                          slept |-> 0, sent |-> FALSE, raised |-> None]]
    \* no decorated call under way, an empty lru_cache
    /\ memo = [pc |-> [t \in ThreadIds |-> "idle"],
               ret |-> [op |-> "init", thread |-> 0, key |-> None, cached |-> FALSE,
                        computed_at |-> 0, returned_at |-> 0]]
    /\ lru = [cache |-> << >>, ops |-> 0, used |-> [k \in CacheKeys |-> 0],
              last |-> [op |-> "init", key |-> None, hit |-> FALSE]]
    \* a session that has not run router() yet: 'page' is 'main', no history
    /\ page_state = [op |-> "init", authenticated |-> FALSE, current_page |-> "main",
                     outcome |-> "none", page |-> "main", rendered |-> "none",
                     raised |-> None]
    /\ history = [entries |-> << >>, shown |-> << >>]
    \* run_model_training has not run
    /\ trainRet = [op |-> "init", flip |-> FALSE, trained |-> FALSE,
                   register |-> FALSE, promote |-> FALSE, path_ok |-> FALSE,
                   model_id |-> None]
    \* SecurityManager.__init__: failed_attempts = {}
    /\ lockout = [failed_attempts |-> << >>,
                  calls |-> [u \in Subjects |-> 0],
                  fifth_at |-> [u \in Subjects |-> -1],
                  last_at |-> [u \in Subjects |-> -1],
                  ret |-> [op |-> "init", username |-> None, ok |-> TRUE,
                           remaining |-> 0, cleared |-> FALSE, calls |-> 0,
                           fifth_at |-> -1, last_at |-> -1, at |-> 0]]

AuthInit ==
    /\ users = DefaultUsers
    /\ authRet = [op |-> "init", user |-> None, role |-> None, ok |-> TRUE]

Init == AuthInit /\ RegistryInit /\ ManagerInit /\ SideInit

NextAuth ==
    \/ \E u \in Usernames, f \in FullNames, e \in Emails, r \in Roles :
         create_user(u, f, e, r)
    \/ \E u \in Usernames, f \in FullNames \cup {None}, e \in Emails \cup {None},
            r \in Roles \cup {None} : update_user(u, f, e, r)
    \/ \E u \in Usernames : delete_user(u)
SpecAuth == Init /\ [][NextAuth]_vars

NextRegistry ==
    \/ \E m \in ModelPool, ok \in BOOLEAN : register_model(m, ok)
    \/ PromoteToProduction
    \/ \E v \in VariantInputs : create_experiment(v)
    \/ \E r \in RequestIds \cup {None, ""} : get_model_for_request(r)
    \/ \E i \in 1..MaxExperiments : stop_experiment(ExperimentNames[i])
    \/ ProcessStart
SpecRegistry == Init /\ [][NextRegistry]_vars

\* registry.json files a serving process can start on; each is a state of
\* SpecRegistry (registrations, promotions and experiments made by the CLI)
RegistryFiles ==
    LET SplitA == <<[id |-> "m1", pct |-> Pct(60)], [id |-> "m2", pct |-> Pct(40)]>>
        SplitB == <<[id |-> "m2", pct |-> Pct(70)], [id |-> "m1", pct |-> Pct(30) + 500]>>
        ExpA == [id |-> "e1", model_variants |-> SplitA, status |-> "active"]
        ExpB == [id |-> "e1", model_variants |-> SplitB, status |-> "active"]
    IN
    { [models |-> << >>, production |-> None,
       experiments |-> << >>, default_traffic_split |-> << >>],
      [models |-> [m \in {"m1"} |-> "registered"], production |-> None,
       experiments |-> << >>, default_traffic_split |-> << >>],
      [models |-> [m \in ModelPool |-> IF m = "m1" THEN "production" ELSE "registered"],
       production |-> "m1",
       experiments |-> << >>, default_traffic_split |-> << >>],
      [models |-> [m \in ModelPool |-> IF m = "m1" THEN "production" ELSE "registered"],
       production |-> "m1",
       experiments |-> <<ExpA>>, default_traffic_split |-> SplitA],
      [models |-> [m \in ModelPool |-> "registered"], production |-> None,
       experiments |-> <<ExpB>>, default_traffic_split |-> SplitB] }

\* ModelManager() constructed on an existing registry directory:
\* ModelRegistry.__init__ reads registry.json back
RegistryLoaded ==
    /\ \E f \in RegistryFiles :
         /\ models = f.models
         /\ production = f.production
         /\ experiments = f.experiments
         /\ default_traffic_split = f.default_traffic_split
    /\ strhash \in [RequestIds -> HashVals]
    /\ regRet = [op |-> "init", arg |-> None, out |-> None, bucket |-> -1]

InitManager == AuthInit /\ RegistryLoaded /\ ManagerInit /\ SideInit

\* the side components run in one process, whose string hashes are drawn once
InitSide == Init /\ strhash = [r \in RequestIds |-> 10]

NextRateLimit ==
    \/ \E client_ip \in ClientIps : dispatch(client_ip)
    \/ \E user_id \in UserIds : check_rate_limit(user_id)
    \/ Advance(window_size \div 2, RlMaxElapsed)
SpecRateLimit == InitSide /\ [][NextRateLimit]_vars

NextApi == ScoreCredit \/ BatchScoreCredit
SpecApi == InitManager /\ [][NextApi]_vars

NextToken ==
    \/ \E sub \in Subjects, expires_delta \in Lifetimes :
         create_access_token(sub, expires_delta)
    \/ \E username \in Subjects, expires_in \in Lifetimes :
         generate_jwt_token(username, expires_in)
    \/ \E token \in tokens \cup {GarbageToken} :
         TokenChecked("decode_access_token", token, decode_access_token(token))
    \/ \E token \in tokens \cup {GarbageToken} :
         TokenChecked("get_current_user", token, get_current_user(token))
    \/ \E token \in tokens \cup {GarbageToken} :
         TokenChecked("verify_jwt_token", token, verify_jwt_token(token))
    \/ Advance(access_token_expire_seconds \div 2, TokMaxElapsed)
SpecToken == InitSide /\ [][NextToken]_vars

NextSession ==
    \/ OpenSession
    \/ SessionChecked("validate_session", validate_session(session))
    \/ SessionChecked("SecurityManager.validate_session", sm_validate_session(session))
    \/ Advance(max_session_age \div 2, SessMaxElapsed)
SpecSession == InitSide /\ [][NextSession]_vars

NextClients ==
    \E c \in Clients :
      \/ ClientOpen(c) \/ ClientRegister(c) \/ ClientPromote(c)
      \/ ClientSave(c) \/ ClientClose(c)
SpecClients == InitSide /\ [][NextClients]_vars

NextMonitor ==
    \/ StartMonitoring \/ StopMonitoring \/ JoinReturns
    \/ \E t \in ThreadIds : LoopTest(t) \/ LoopCollect(t) \/ LoopReset(t) \/ LoopWake(t)
    \/ \E k \in Kinds : Record(k)
    \/ GetCurrentMetricsRead \/ GetCurrentMetricsReset
SpecMonitor == InitSide /\ [][NextMonitor]_vars

NextSecure ==
    \/ \E users_arg \in UserDbs : save_users(users_arg)
    \/ get_users
    \/ \E key \in EnvKeys : StartWithKey(key)
SpecSecure == InitSide /\ [][NextSecure]_vars

NextIngest == \E how \in [Sources -> LoadOutcomes] : ingest_all(how)
SpecIngest == InitSide /\ [][NextIngest]_vars

NextExtApi ==
    \/ \E answer \in Answers : request(answer)
    \/ Advance(30, ApiMaxElapsed)
SpecExtApi == InitSide /\ [][NextExtApi]_vars

NextCache ==
    \/ \E t \in ThreadIds, key \in CacheKeys : cache_result_get(t, key)
    \/ \E t \in ThreadIds : cache_result_put(t)
    \/ Advance(ttl \div 2, MemoMaxElapsed)
SpecCache == InitSide /\ [][NextCache]_vars

NextDashboard ==
    \/ \E page \in Pages : show_page(page)
    \/ \E authenticated \in BOOLEAN, outcome \in {"renders", "raises"} :
         router(authenticated, outcome)
    \/ \E score \in {300, 850} : display_prediction_results(score)
    \/ display_recent_predictions
SpecDashboard == InitSide /\ [][NextDashboard]_vars

NextTrain ==
    \/ \E model_id \in ModelPool \cup {"m3"},
            trained, register, promote, path_ok \in BOOLEAN :
         run_model_training(model_id, trained, register, promote, path_ok)
    \/ PromoteToProduction
    \/ \E v \in VariantInputs : create_experiment(v)
SpecTrain == InitSide /\ [][NextTrain]_vars

NextLockout ==
    \/ \E username \in Subjects : record_failed_login(username)
    \/ \E username \in Subjects : check_login_attempts(username)
    \/ Advance(lockout_duration \div 2, LockMaxElapsed)
SpecLockout == InitSide /\ [][NextLockout]_vars

NextManager ==
    \/ PromoteToProduction
    \/ GetModel
    \/ Tick
SpecManager == InitManager /\ [][NextManager]_vars

NextPredict ==
    \/ Predict
    \/ PredictWithExplanation
    \/ Tick
SpecPredict == InitManager /\ [][NextPredict]_vars

(***************************************************************************)
(* Properties of the account store                                         *)
(***************************************************************************)

\* C1: starting from a database with an admin account, after any sequence of
\* create_user, update_user and delete_user the database still holds at least
\* one account with role "admin".
C1_LastAdminKept == admin_count(users) >= 1

(***************************************************************************)
(* Properties of the registry                                              *)
(***************************************************************************)
\* a step taken by the registry operation op: registry operations leave the
\* hash salt and the other components alone and record themselves in regRet
RegistryCall(op) == regRet'.op = op /\ UNCHANGED <<strhash, authVars, mgrVars>>
CreateCalled == RegistryCall("create_experiment")
CreateRejectedStep ==
    /\ regRet'.out = ""
    /\ experiments' = experiments
    /\ default_traffic_split' = default_traffic_split
CreateAcceptedStep ==
    /\ regRet'.out # ""
    /\ Len(experiments') = Len(experiments) + 1
    /\ experiments'[Len(experiments')].id = regRet'.out
    /\ experiments'[Len(experiments')].model_variants = regRet'.arg
    /\ default_traffic_split' = regRet'.arg
AllRegistered(v) == \A i \in 1..Len(v) : v[i].id \in DOMAIN models

\* C2 as stated: create_experiment rejects every map whose percentages are
\* not within 1e-6 of 100.0 or that names an unregistered model id (empty id
\* returned, no entry stored, split unchanged), and accepts the others.
C2_RejectsBeyond1e6 ==
    [][CreateCalled =>
         IF Abs(SumPct(regRet'.arg) - Pct(100)) <= 1 /\ AllRegistered(regRet'.arg)
         THEN CreateAcceptedStep ELSE CreateRejectedStep]_vars

\* C2 amended: the tolerance is that of numpy.isclose's defaults,
\* |sum - 100| <= 1e-8 + 1e-5 * 100, i.e. sums within 0.001 of 100.0 pass;
\* a map outside it or naming an unregistered id is rejected without effect.
C2_RejectsBeyondIsclose ==
    [][CreateCalled =>
         IF Abs(SumPct(regRet'.arg) - Pct(100)) <= 1000 /\ AllRegistered(regRet'.arg)
         THEN CreateAcceptedStep ELSE CreateRejectedStep]_vars

\* a rejected call made while an earlier experiment's split is live
C2_Witness ==
    /\ regRet.op = "create_experiment"
    /\ regRet.out = ""
    /\ regRet.arg # << >>
    /\ default_traffic_split # << >>
    /\ Len(experiments) >= 1

\* cumulative percentage after the first i variants of a split
RECURSIVE CumPct(_, _)
CumPct(v, i) == IF i = 0 THEN 0 ELSE v[i].pct + CumPct(v, i - 1)

\* variant i is the first whose cumulative percentage exceeds bucket b
FirstOver(v, i, b) ==
    /\ CumPct(v, i) > Pct(b)
    /\ \A j \in 1..(i - 1) : CumPct(v, j) <= Pct(b)

RoutedAsDocumented(v) ==
    IF v = << >>
    THEN regRet.out = production
    ELSE /\ regRet.bucket \in 0..99
         /\ \/ \E i \in 1..Len(v) : FirstOver(v, i, regRet.bucket) /\ regRet.out = v[i].id
            \/ /\ \A i \in 1..Len(v) : CumPct(v, i) <= Pct(regRet.bucket)
               /\ regRet.out = production

\* C3: get_model_for_request returns the production id when the split is
\* empty; otherwise the first variant, in insertion order, whose cumulative
\* percentage exceeds the request's bucket b in [0,100), and the production
\* id only when no variant does.
C3_RoutingWalk ==
    regRet.op = "get_model_for_request" => RoutedAsDocumented(default_traffic_split)

\* a request whose bucket sits exactly on a split point goes to the next variant
C3_Witness ==
    /\ regRet.op = "get_model_for_request"
    /\ Len(default_traffic_split) = 2
    /\ Pct(regRet.bucket) = default_traffic_split[1].pct
    /\ regRet.out = default_traffic_split[2].id

\* C4: while default_traffic_split is unchanged and non-empty, two calls of
\* get_model_for_request with the same non-empty request id return the same
\* model id.
C4_SameRequestSameModel ==
    [][(/\ regRet.op = "get_model_for_request"
        /\ RegistryCall("get_model_for_request")
        /\ Truthy(regRet.arg)
        /\ regRet'.arg = regRet.arg
        /\ default_traffic_split # << >>
        /\ default_traffic_split' = default_traffic_split)
       => regRet'.out = regRet.out]_vars

\* C5: every successful create_experiment makes default_traffic_split equal
\* to that experiment's model_variants and keeps all earlier entries stored.
C5_LatestSplitLive ==
    [][(CreateCalled /\ regRet'.out # "") =>
         /\ default_traffic_split' = regRet'.arg
         /\ Len(experiments') = Len(experiments) + 1
         /\ SubSeq(experiments', 1, Len(experiments)) = experiments
         /\ experiments'[Len(experiments')].model_variants = default_traffic_split']_vars

\* two experiments stored, the live split is the second one's and not the first's
C5_Witness ==
    /\ Len(experiments) >= 2
    /\ default_traffic_split = experiments[2].model_variants
    /\ default_traffic_split # experiments[1].model_variants
    /\ regRet.op = "create_experiment"
    /\ regRet.out = experiments[2].id

\* C6: promote_to_production(m) on a registered m sets the pointer to m and
\* m's status to "production" and changes nothing else (other entries keep
\* their status); on an unregistered m it returns False and changes nothing.
C6_PromoteFrame ==
    [][RegistryCall("promote_to_production") =>
         /\ UNCHANGED <<experiments, default_traffic_split>>
         /\ DOMAIN models' = DOMAIN models
         /\ IF regRet'.arg \in DOMAIN models
            THEN /\ regRet'.out = TRUE
                 /\ production' = regRet'.arg
                 /\ models'[regRet'.arg] = "production"
                 /\ \A m \in DOMAIN models \ {regRet'.arg} : models'[m] = models[m]
            ELSE /\ regRet'.out = FALSE
                 /\ UNCHANGED <<models, production>>]_vars

\* a second promotion: the earlier entry still shows "production", the
\* pointer names the later one
C6_Witness ==
    /\ regRet.op = "promote_to_production"
    /\ regRet.out = TRUE
    /\ production = regRet.arg
    /\ \E m \in DOMAIN models : m # production /\ models[m] = "production"

LastExperiment == experiments[Len(experiments)]

ManagerCall(op) == mgrRet'.op = op /\ UNCHANGED <<regVars, authVars, now>>

\* C8: every model get_model serves from its cache was loaded from the
\* registry less than cache_ttl = 300 seconds before the call.
C8_CacheHitFresh ==
    (mgrRet.op = "get_model" /\ mgrRet.hit) => mgrRet.age < cache_ttl

\* C9: when the load of the requested (or routed) id fails and a production
\* model with another id exists, get_model loads the production model exactly
\* once and returns its outcome with the production id; when that load fails
\* too, or there is no other production model, it returns no model and loads
\* nothing further.
C9_FallbackOnce ==
    [][(/\ ManagerCall("get_model")
        /\ ~mgrRet'.hit
        /\ ~mgrRet'.loads[1].ok)
       => /\ mgrRet'.loads[1].id = mgrRet'.target
          /\ IF production # None /\ production # mgrRet'.target
             THEN /\ Len(mgrRet'.loads) = 2
                  /\ mgrRet'.loads[2].id = production
                  /\ mgrRet'.model_id = production
                  /\ mgrRet'.found = mgrRet'.loads[2].ok
                  /\ mgrRet'.found => mgrRet'.model_of = production
             ELSE /\ Len(mgrRet'.loads) = 1
                  /\ ~mgrRet'.found]_vars

\* the fallback served the production model for a routed id that failed to load
C9_Witness ==
    /\ mgrRet.op = "get_model"
    /\ ~mgrRet.hit
    /\ Len(mgrRet.loads) = 2
    /\ mgrRet.found
    /\ mgrRet.model_id = production
    /\ mgrRet.target # production
    /\ mgrRet.target \in DOMAIN models

PredictOps == {"predict", "predict_with_explanation"}

\* C10 as stated: on every failure of predict / predict_with_explanation (no
\* model resolved, or the prediction or explanation step fails) the result is
\* empty and the returned model id is empty.
C10_EmptyIdOnEveryFailure ==
    (mgrRet.op \in PredictOps /\ (~mgrRet.resolved \/ ~mgrRet.step_ok))
      => (mgrRet.out = "empty" /\ mgrRet.model_id = "")

\* C10 amended: on every failure the result is empty; the returned model id
\* is empty when no model could be resolved, and is the id of the resolved
\* (registered) model when its prediction or explanation step failed.
C10_EmptyResultOnFailure ==
    (mgrRet.op \in PredictOps /\ (~mgrRet.resolved \/ ~mgrRet.step_ok))
      => /\ mgrRet.out = "empty"
         /\ ~mgrRet.resolved => mgrRet.model_id = ""
         /\ mgrRet.resolved => mgrRet.model_id \in DOMAIN models

\* an explanation call whose model was resolved and whose try block failed
C10_Witness ==
    /\ mgrRet.op = "predict_with_explanation"
    /\ mgrRet.resolved
    /\ ~mgrRet.step_ok
    /\ mgrRet.out = "empty"
    /\ mgrRet.model_id \in DOMAIN models

(***************************************************************************)
(* C11: sliding-window rate limiting per client key                        *)
(***************************************************************************)
\* a step that is one rate-limited call (the clock stands still during it)
RateLimitCall == rlRet'.op \in {"dispatch", "check_rate_limit"} /\ now' = now

\* the calls of key k let through during the window that ends at time t
RecentAllowed(k, t) ==
    Cardinality({i \in 1..Len(rlLog[k].times) : t - rlLog[k].times[i] < window_size})

\* C11: a call for a client key (client IP in the API middleware, user id in
\* the dashboard) is let through exactly when fewer than the ceiling of calls
\* of that key were let through during the last 60 seconds, so the first
\* MaxRequests calls of a window pass, the next is refused, and calls pass
\* again once the window has elapsed; the API refuses with 429 and Retry-After
C11_SlidingWindow ==
    [][RateLimitCall =>
        /\ rlRet'.allowed <=> RecentAllowed(rlRet'.key, now) < MaxRequests
        /\ (rlRet'.op = "dispatch" /\ ~rlRet'.allowed) =>
                (rlRet'.status = 429 /\ rlRet'.retry_after = window_size)
        /\ (rlRet'.op = "dispatch" /\ rlRet'.allowed) => rlRet'.status = 200]_vars

\* a client IP that filled its window, was refused, and is let through again
\* a full window later
C11_Witness ==
    /\ rlRet.op = "dispatch" /\ rlRet.allowed
    /\ LET l == rlLog[rlRet.key] IN
        /\ Len(l.times) = MaxRequests + 1
        /\ l.denied >= l.times[MaxRequests]
        /\ l.denied < l.times[MaxRequests + 1]
        /\ l.times[MaxRequests + 1] - l.times[1] >= window_size

(***************************************************************************)
(* C12, C13: validation failures of the scoring endpoints                  *)
(***************************************************************************)
\* the 0-based indexes of the items that fail validate_credit_score_input
FailingIndexes(items) ==
    {i - 1 : i \in {j \in 1..Len(items) : ~validate_credit_score_input(items[j]).is_valid}}

\* C12: batch scoring is all-or-nothing: when any item of the batch fails
\* validation the batch is answered 422, the answer lists exactly the failing
\* indexes with their errors, and the model is not invoked for any item
C12_BatchAllOrNothing ==
    (apiRet.op = "batch" /\ FailingIndexes(apiRet.items) # {}) =>
        /\ apiRet.status = 422
        /\ {apiRet.batch_errors[i].index : i \in 1..Len(apiRet.batch_errors)}
             = FailingIndexes(apiRet.items)
        /\ \A i \in 1..Len(apiRet.batch_errors) : Len(apiRet.batch_errors[i].errors) > 0
        /\ ~apiRet.invoked
        /\ apiRet.count = 0

\* C13: POST /api/score with an input that fails validation (for example a
\* negative income) is answered 422 with the itemized errors, never 500
C13_InvalidScoreIs422 ==
    (apiRet.op = "score" /\ ~validate_credit_score_input(apiRet.items[1]).is_valid) =>
        /\ apiRet.status = 422
        /\ apiRet.status # 500
        /\ Len(apiRet.errors) > 0

(***************************************************************************)
(* C14: bearer-token lifecycle                                             *)
(***************************************************************************)
\* a step that verifies a token (the clock stands still during it)
TokenCheck(op) == tokRet'.op = op /\ now' = now /\ tokens' = tokens

\* the token was issued under the key the verifier uses
IssuedUnder(token, key) == token.kind = "jwt" /\ token.key = key

SessionCheck == sessRet'.op = "validate_session" /\ now' = now /\ session' = session

\* the same with SecurityManager.validate_session
SmSessionCheck ==
    sessRet'.op = "SecurityManager.validate_session" /\ now' = now /\ session' = session

\* C15 as stated: the session is rejected once more than 24 hours have passed
\* since it started, and an authenticated session younger than 24 hours is
\* accepted
C15_ExpiresAfter24h ==
    [][SessionCheck =>
        /\ (now - session.started > max_session_age) => ~sessRet'.ok
        /\ (session.authenticated /\ now - session.started < max_session_age)
              => sessRet'.ok]_vars

\* C15: a session whose state records its start is rejected once more than 24
\* hours have passed since then, however often it was validated before; an
\* authenticated session that carries a username and a role, and whose
\* recorded start is at most 24 hours old or absent, is accepted
\* (SecurityManager.validate_session asks for the user id only)
C15_RecordedStartExpires ==
    [][/\ SessionCheck =>
          /\ (session.session_start.kind = "iso"
                /\ now - session.session_start.at > max_session_age) => ~sessRet'.ok
          /\ (/\ session.authenticated /\ session.has_user /\ session.has_role
              /\ \/ session.session_start.kind = "absent"
                 \/ /\ session.session_start.kind = "iso"
                    /\ now - session.session_start.at <= max_session_age)
                => sessRet'.ok
       /\ SmSessionCheck =>
          /\ (session.session_start.kind = "iso"
                /\ now - session.session_start.at > max_session_age) => ~sessRet'.ok
          /\ (/\ session.has_user
              /\ \/ session.session_start.kind = "absent"
                 \/ /\ session.session_start.kind = "iso"
                    /\ now - session.session_start.at <= max_session_age)
                => sessRet'.ok]_vars

\* a complete, authenticated session is rejected more than 24 hours after
\* its recorded start
C15_Witness ==
    /\ sessRet.op = "validate_session" /\ ~sessRet.ok
    /\ session.authenticated /\ session.has_user /\ session.has_role
    /\ session.session_start.kind = "iso"
    /\ now - session.session_start.at > max_session_age

(***************************************************************************)
(* C16: the registry only grows                                            *)
(***************************************************************************)
ExperimentIds(exps) == {exps[i].id : i \in 1..Len(exps)}

C17_LastWriterWins ==
    /\ clLog.last_writer # None =>
         (\/ registry_file.registry = client_registry[clLog.last_writer].registry
          \/ client_registry[clLog.last_writer].pc = "save"
          \/ ~client_registry[clLog.last_writer].open)
    /\ ~clRet.error
    /\ (clRet.op = "_save_registry") =>
         registry_file.registry = client_registry[clRet.client].registry

\* both clients registered a model and saved; the file holds only the model
\* of the one that saved last
C17_Witness ==
    /\ clRet.op = "_save_registry"
    /\ \A c \in Clients : client_registry[c].open /\ client_registry[c].pc = "idle"
    /\ clLog.returned = ModelPool
    /\ \A c \in Clients : Cardinality(DOMAIN client_registry[c].registry.models) = 1
    /\ Cardinality(DOMAIN registry_file.registry.models) = 1
    /\ client_registry["c1"].registry # client_registry["c2"].registry

(***************************************************************************)
(* C18, C19: the metrics monitor                                           *)
(***************************************************************************)
\* the monitor threads that are inside a collection
Collecting == {t \in ThreadIds : thread_pc[t] \in {"collect", "reset"}}

\* C18: whatever the sequence of start_monitoring and stop_monitoring calls,
\* at most one metrics-collection thread is collecting at any time, and once
\* stop has returned no thread begins a collection until the next start
C18_OneCollector ==
    /\ Cardinality(Collecting) <= 1
    /\ (~running /\ main_pc # "join") => Collecting = {}

\* no collection is between reading the counters and resetting them
NoCollectionUnderWay ==
    main_pc # "reset" /\ \A t \in ThreadIds : thread_pc[t] # "reset"

\* C19: the counters are reset by every collection, so every recorded
\* request, error or response time is reported by exactly one snapshot:
\* between collections, what was recorded is what the snapshots reported
\* plus what the counters still hold for the next snapshot
C19_ReportedExactlyOnce ==
    NoCollectionUnderWay =>
        \A k \in Kinds : mcLog.recorded[k] = mcLog.reported[k] + collector[k]

(***************************************************************************)
(* C20: encrypted persistence round trip                                   *)
(***************************************************************************)
\* C20: the users handed to save_users are what the next get_users returns,
\* whether the key comes from the environment variable or no key is
\* configured and one is generated
C20_SavedUsersReadBack ==
    (secRet.op = "get_users" /\ secLog.saved) =>
        (~secRet.raised /\ secRet.data = secLog.data)

(***************************************************************************)
(* C21: ingestion of independent sources                                   *)
(***************************************************************************)
\* the sources whose load_data returned a table
Succeeded == {name \in Sources : ingest.how[name] \in {"rows", "empty", "bad_dates"}}

\* C21: ingest_all calls load_data of every registered source, whatever the
\* others did, and it fails if and only if no source succeeded
C21_FailsIffNoneSucceeded ==
    ingest.op = "ingest_all" =>
        /\ ingest.called = {name \in Sources : ingest.how[name] # "unregistered"}
        /\ (ingest.raised # None) <=> (Succeeded = {})

(***************************************************************************)
(* C22, C30: the rate-limit guard of the external API client               *)
(***************************************************************************)
\* C22: with the per-day ceiling reached the request raises
\* RateLimitExceeded without sleeping and without being sent; with only the
\* per-minute ceiling reached it sleeps, at most 60 seconds, and is sent
C22_DayFailsFastMinuteWaits ==
    extapi.ret.op = "request" =>
        /\ extapi.ret.day_full =>
             /\ extapi.ret.raised = "RateLimitExceeded"
             /\ extapi.ret.slept = 0
             /\ ~extapi.ret.sent
        /\ (extapi.ret.minute_full /\ ~extapi.ret.day_full) =>
             /\ extapi.ret.slept <= 60
             /\ extapi.ret.sent

\* the requests sent in the 60 seconds that start with the i-th one
SentInWindow(i) ==
    Cardinality({j \in 1..Len(extapi.sent) :
                   /\ extapi.sent[j] >= extapi.sent[i]
                   /\ extapi.sent[j] < extapi.sent[i] + 60})

\* C30: no 60-second window holds more than the per-minute ceiling of
\* requests sent, whatever became of them
C30_AtMostNPerMinute ==
    \A i \in 1..Len(extapi.sent) : SentInWindow(i) <= ReqPerMinute

(***************************************************************************)
(* C23, C24: cache_result and LRUCache                                     *)
(***************************************************************************)
\* C23: a call through cache_result(ttl) never returns a result that was
\* computed and stored more than ttl seconds before
C23_NoResultOlderThanTtl ==
    (memo.ret.op = "call" /\ memo.ret.cached) =>
        memo.ret.returned_at - memo.ret.computed_at <= ttl

\* the keys an OrderedDict holds
KeysOf(cache) == {cache[i].key : i \in 1..Len(cache)}

\* the key of cache that was read or written longest ago
LeastRecentlyUsed ==
    CHOOSE k \in KeysOf(lru.cache) :
      \A other \in KeysOf(lru.cache) : lru.used[k] <= lru.used[other]

\* C24: the cache never holds more than max_size entries, whatever the
\* threads do, and a put of a new key into a full cache removes exactly the
\* entry used (by a get hit or a put) longest ago
C24_BoundedLruEviction ==
    [][ /\ Len(lru'.cache) <= LruMaxSize
        /\ Cardinality(KeysOf(lru'.cache)) = Len(lru'.cache)
        /\ (/\ lru'.ops = lru.ops + 1
            /\ lru'.last.op = "put"
            /\ lru'.last.key \notin KeysOf(lru.cache)
            /\ Len(lru.cache) = LruMaxSize)
           => KeysOf(lru'.cache) =
                (KeysOf(lru.cache) \ {LeastRecentlyUsed}) \cup {lru'.last.key} ]_vars

\* a put into a full cache has evicted an entry, and an entry that was used
\* after the evicted one is still held
C24_Witness ==
    /\ lru.last.op = "put"
    /\ Len(lru.cache) = LruMaxSize
    /\ \E k \in CacheKeys \ KeysOf(lru.cache) :
         /\ lru.used[k] > 0
         /\ \E kept \in KeysOf(lru.cache) \ {lru.last.key} : lru.used[kept] > lru.used[k]

(***************************************************************************)
(* C25, C26: the dashboard router and the prediction history               *)
(***************************************************************************)
\* C25: for an authenticated session router() renders the page its page
\* field names; when the page function raises (or the name is not a page) it
\* sets the page field to 'main' and renders the main page; either way the
\* page field names a recognised page afterwards
C25_RouterDispatchesOrFallsBack ==
    (page_state.op = "router" /\ page_state.authenticated) =>
        /\ page_state.page \in Pages
        /\ (page_state.current_page \in Pages /\ page_state.outcome = "renders")
             => page_state.rendered = page_state.current_page
        /\ (page_state.current_page \notin Pages \/ page_state.outcome = "raises")
             => /\ page_state.page = "main"
                /\ page_state.rendered = "main"

\* C26: the prediction history of a session never holds more entries than
\* the five that display_recent_predictions shows
C26_HistoryBounded == Len(history.entries) <= 5

(***************************************************************************)
(* C27: run_model_training                                                 *)
(***************************************************************************)
\* C27: a run of run_model_training with the default options (register, do
\* not promote) whose training and artifact are sound adds the new model to
\* the registry with status 'registered' and leaves the production pointer
\* and the traffic split as they were; a run changes the production pointer
\* only if promotion was requested and the registration returned an id, and
\* then to that id
C27_TrainingRegistersOnly ==
    [][ trainRet'.flip # trainRet.flip =>
          /\ (trainRet'.register /\ ~trainRet'.promote) =>
               /\ production' = production
               /\ default_traffic_split' = default_traffic_split
               /\ (trainRet'.trained /\ trainRet'.path_ok) =>
                    /\ trainRet'.model_id \in DOMAIN models' \ DOMAIN models
                    /\ models'[trainRet'.model_id] = "registered"
          /\ production' # production =>
               /\ trainRet'.promote
               /\ trainRet'.model_id # None
               /\ production' = trainRet'.model_id ]_vars

\* a default run has registered a model next to a production model, with a
\* traffic split in force
C27_Witness ==
    /\ trainRet.op = "run_model_training"
    /\ default_traffic_split # << >>
    /\ trainRet.register /\ ~trainRet.promote
    /\ trainRet.model_id # None
    /\ production \notin {None, trainRet.model_id}
    /\ models[trainRet.model_id] = "registered"

(***************************************************************************)
(* C28: recording while a collection is in progress                        *)
(***************************************************************************)
\* C28: at every moment, a collection under way or not, no event has been
\* reported by more snapshots than it was recorded for (none is counted
\* twice), and every recorded event is either in a snapshot or still in the
\* counters for the next one (none is lost)
C28_NeitherLostNorTwice ==
    \A k \in Kinds :
      /\ mcLog.reported[k] <= mcLog.recorded[k]
      /\ mcLog.recorded[k] <= mcLog.reported[k] + collector[k]

(***************************************************************************)
(* C29: login lockout                                                      *)
(***************************************************************************)
\* C29: check_login_attempts reports a username unlocked while fewer than
\* max_login_attempts failures have been recorded for it; it reports it
\* locked during the lockout_duration seconds that follow the fifth recorded
\* failure; and the first check made once lockout_duration seconds have
\* passed since the last recorded failure reports it unlocked and clears
\* its failure count
C29_LockoutAfterFiveFailures ==
    lockout.ret.op = "check_login_attempts" =>
        /\ lockout.ret.calls < max_login_attempts => lockout.ret.ok
        /\ (/\ lockout.ret.calls >= max_login_attempts
            /\ lockout.ret.at < lockout.ret.fifth_at + lockout_duration)
             => ~lockout.ret.ok
        /\ (/\ lockout.ret.calls >= max_login_attempts
            /\ lockout.ret.at >= lockout.ret.last_at + lockout_duration)
             => (lockout.ret.ok /\ lockout.ret.cleared)

====
